---------------------------- MODULE Spec2Model ----------------------------
(***************************************************************************)
(* A model of the scoring / matching core of the VC sourcing agent:        *)
(*   src/models/fit_metric.py             FitMetricCalculator              *)
(*   src/models/optimized_fit_metric.py   OptimizedFitMetricCalculator     *)
(*   src/metrics/quality_scorer.py        QualityScorer                    *)
(*   src/unified_vc_sourcing_agent.py     UnifiedVCSourcingAgent           *)
(*   src/utils/parallel_processor.py      CachingProcessor                 *)
(*                                                                         *)
(* Python strings are TLA+ strings; None is the model value NONE.  Float   *)
(* scores are integers in hundredths of a point (7500 is 75.0); the        *)
(* combined score, which is not rounded by the code, is in thousandths.    *)
(***************************************************************************)
EXTENDS Integers, Sequences, FiniteSets, TLC

VARIABLES
    portfolio_cache,   \* agent -> (vc_firm -> resolved portfolio list): self.portfolio_cache
    first_return,      \* agent -> (vc_firm -> the list the first returning call gave)
    fit_calculator,    \* the OptimizedFitMetricCalculator: vc_embeddings, the lru_cache
                       \* of _get_text_embedding, and its CachingProcessor's cache
    now,               \* time.time(), in seconds
    encoder,           \* the loaded sentence-embedding model (NoModel: loading failed)
    last,              \* the last call made: its name, its arguments, what it returned
    stored,            \* key -> the result and time of the latest cache_result call for
                       \* the key since the last clear_cache (history)
    tasks,             \* the tasks or futures of the ParallelProcessor call in progress
    semaphore,         \* the value of the asyncio.Semaphore of process_with_semaphore
    frame              \* the local variables of the ParallelProcessor call in progress

vars == <<portfolio_cache, first_return, fit_calculator, now, encoder, last,
          stored, tasks, semaphore, frame>>

\* the four variables of the utilities of src/utils/parallel_processor.py
processor_vars == <<stored, tasks, semaphore, frame>>

NONE == "<None>"

(***************************************************************************)
(* Python str operations                                                   *)
(***************************************************************************)

\* F applied to the value of v, v being worked out once
WithValue(v, F(_)) == CHOOSE r \in {F(x) : x \in {v}} : TRUE

Min(a, b) == IF a <= b THEN a ELSE b
Max(a, b) == IF a >= b THEN a ELSE b
Abs(a) == IF a >= 0 THEN a ELSE 0 - a

\* max(S)
SetMax(S) == CHOOSE x \in S : \A y \in S : y <= x

\* truthiness of an Optional[str]: None and "" are falsy
Truthy(s) == s # NONE /\ s # ""

\* str.lower() on one letter: the upper-case letters and what each becomes
LowerMap ==
    LET UpperChars == <<"A","B","C","D","E","F","G","H","I","J","K","L","M",
                        "N","O","P","Q","R","S","T","U","V","W","X","Y","Z">>
        LowerChars == <<"a","b","c","d","e","f","g","h","i","j","k","l","m",
                        "n","o","p","q","r","s","t","u","v","w","x","y","z">>
    IN  [c \in {UpperChars[i] : i \in 1..26} |->
            LowerChars[CHOOSE i \in 1..26 : UpperChars[i] = c]]

\* str.lower()
RECURSIVE Lower(_)
Lower(s) ==
    IF Len(s) = 0 THEN ""
    ELSE LET c == SubSeq(s, 1, 1)
         IN  (IF c \in DOMAIN LowerMap THEN LowerMap[c] ELSE c)
             \o Lower(SubSeq(s, 2, Len(s)))

\* str.strip(): leading and trailing blanks removed
RECURSIVE Strip(_)
Strip(s) ==
    IF Len(s) = 0 THEN ""
    ELSE IF SubSeq(s, 1, 1) = " " THEN Strip(SubSeq(s, 2, Len(s)))
    ELSE IF SubSeq(s, Len(s), Len(s)) = " " THEN Strip(SubSeq(s, 1, Len(s) - 1))
    ELSE s

\* a in b, for strings
IsSubstring(a, b) ==
    \/ Len(a) = 0
    \/ \E i \in 1..(Len(b) - Len(a) + 1) : SubSeq(b, i, i + Len(a) - 1) = a

\* the length of the common run of a from i and b from j
RECURSIVE RunLength(_, _, _, _)
RunLength(a, b, i, j) ==
    IF i > Len(a) \/ j > Len(b) \/ SubSeq(a, i, i) # SubSeq(b, j, j) THEN 0
    ELSE 1 + RunLength(a, b, i + 1, j + 1)

\* difflib.SequenceMatcher.find_longest_match over whole strings: <<i, j, k>>,
\* the longest common block, the earliest in a among the longest, then the
\* earliest in b; k = 0 when a and b share no character
LongestMatch(a, b) ==
    LET run == [i \in 1..Len(a) |-> [j \in 1..Len(b) |-> RunLength(a, b, i, j)]]
        rowBest == [i \in 1..Len(a) |-> SetMax({run[i][j] : j \in 1..Len(b)})]
        k == SetMax({rowBest[i] : i \in 1..Len(a)})
        i0 == CHOOSE i \in 1..Len(a) :
                  rowBest[i] = k /\ \A h \in 1..(i - 1) : rowBest[h] < k
        j0 == CHOOSE j \in 1..Len(b) :
                  run[i0][j] = k /\ \A h \in 1..(j - 1) : run[i0][h] < k
    IN  IF Len(a) = 0 \/ Len(b) = 0 THEN <<0, 0, 0>> ELSE <<i0, j0, k>>

\* the number of matched characters of get_matching_blocks: the longest block,
\* then recursively the pieces to its left and to its right
RECURSIVE MatchCount(_, _)
MatchCount(a, b) ==
    LET m == LongestMatch(a, b)
    IN  IF m[3] = 0 THEN 0
        ELSE m[3] + MatchCount(SubSeq(a, 1, m[1] - 1), SubSeq(b, 1, m[2] - 1))
                  + MatchCount(SubSeq(a, m[1] + m[3], Len(a)),
                               SubSeq(b, m[2] + m[3], Len(b)))

\* SequenceMatcher(None, a, b).ratio() > num/den ; ratio is 2*M/T, and 1.0 when T = 0
RatioAbove(a, b, num, den) ==
    LET T == Len(a) + Len(b)
    IN  IF T = 0 THEN den > num
        ELSE 2 * MatchCount(a, b) * den > num * T

\* str.split(sep) for a non-empty separator
RECURSIVE Split(_, _)
Split(s, sep) ==
    IF \E i \in 1..(Len(s) - Len(sep) + 1) : SubSeq(s, i, i + Len(sep) - 1) = sep
    THEN LET i == CHOOSE k \in 1..(Len(s) - Len(sep) + 1) :
                    /\ SubSeq(s, k, k + Len(sep) - 1) = sep
                    /\ \A j \in 1..(k - 1) : SubSeq(s, j, j + Len(sep) - 1) # sep
         IN  <<SubSeq(s, 1, i - 1)>> \o Split(SubSeq(s, i + Len(sep), Len(s)), sep)
    ELSE <<s>>

\* " ".join(parts)
RECURSIVE Join(_)
Join(parts) ==
    IF parts = <<>> THEN ""
    ELSE IF Len(parts) = 1 THEN parts[1]
    ELSE parts[1] \o " " \o Join(Tail(parts))

Range(seq) == {seq[i] : i \in 1..Len(seq)}

\* [f(x) for x in seq] with f = str.lower
LowerAll(seq) == [i \in 1..Len(seq) |-> Lower(seq[i])]

\* seq[:n]
Prefix(seq, n) == SubSeq(seq, 1, Min(n, Len(seq)))

\* round(x, 2) of a value given in units of 1/10000, as hundredths; Python rounds
\* the exact tie to the even neighbour
Round2(x) ==
    LET q == x \div 100
        r == x % 100
    IN  IF r > 50 THEN q + 1
        ELSE IF r < 50 THEN q
        ELSE IF q % 2 = 0 THEN q ELSE q + 1

(***************************************************************************)
(* The sentence-embedding model and sklearn's cosine_similarity.           *)
(* The model is an external collaborator: a deterministic function from a  *)
(* text to a vector.  Vectors are the zero vector and the four unit axis   *)
(* vectors of the plane, whose cosines are exact; which text goes to which *)
(* vector depends on the loaded model `encoder` (NoModel: loading failed).    *)
(***************************************************************************)

Zeros == <<0, 0>>
AxisVectors == << <<1, 0>>, <<0, 1>>, <<-1, 0>>, <<0, -1>> >>

\* self.embedding_model = None, when loading the model failed
NoModel == 0

\* self.embedding_model.encode([text])[0]: model m sends a text to one of four
\* unit vectors, chosen by the text and by m
Encode(model, text) == AxisVectors[((Len(text) * model) % 4) + 1]

\* cosine_similarity([u], [v])[0][0] * 100, in hundredths of a point; sklearn
\* normalises a zero vector to zero, so its cosine with anything is 0
CosineSimilarity100(u, v) ==
    IF u = Zeros \/ v = Zeros THEN 0
    ELSE (u[1] * v[1] + u[2] * v[2]) * 10000

(***************************************************************************)
(* src/data/schemas.py                                                     *)
(***************************************************************************)

\* FitMetrics: Field(ge=0, le=100) on the six scores; construction raises a
\* ValidationError for a value outside the range
FitMetricsValid(m) ==
    \A f \in {"overall_score", "text_similarity", "industry_alignment",
              "stage_alignment", "geographic_alignment", "network_proximity"} :
        m[f] >= 0 /\ m[f] <= 10000

(***************************************************************************)
(* src/models/fit_metric.py : FitMetricCalculator                          *)
(***************************************************************************)

\* _prepare_startup_text
RECURSIVE Base_founder_parts(_)
Base_founder_parts(founders) ==
    IF founders = <<>> THEN <<>>
    ELSE (IF Truthy(Head(founders).experience) THEN <<Head(founders).experience>> ELSE <<>>)
         \o (IF Truthy(Head(founders).title) THEN <<Head(founders).title>> ELSE <<>>)
         \o Base_founder_parts(Tail(founders))

Base_prepare_startup_text(startup) ==
    Join((IF Truthy(startup.description) THEN <<startup.description>> ELSE <<>>)
         \o (IF Truthy(startup.industry) THEN <<startup.industry>> ELSE <<>>)
         \o Base_founder_parts(startup.founders))

\* _prepare_vc_text
Base_prepare_vc_text(vc) ==
    Join((IF Truthy(vc.investment_thesis) THEN <<vc.investment_thesis>> ELSE <<>>)
         \o vc.focus_areas \o vc.portfolio_companies)

\* _calculate_text_similarity: 0.0 for an empty text; with no model loaded
\* self.embedding_model.encode raises and the except returns 0.0
Base_calculate_text_similarity(model, startup, vc) ==
    LET startup_text == Base_prepare_startup_text(startup)
        vc_text == Base_prepare_vc_text(vc)
    IN  IF startup_text = "" \/ vc_text = "" THEN 0
        ELSE IF model = NoModel THEN 0
        ELSE CosineSimilarity100(Encode(model, startup_text), Encode(model, vc_text))

\* _get_related_industries
Base_get_related_industries(industry) ==
    CASE industry = "fintech" -> <<"financial services", "banking", "payments", "insurtech">>
      [] industry = "healthtech" -> <<"healthcare", "medical", "biotech", "digital health">>
      [] industry = "e-commerce" -> <<"retail", "marketplace", "online shopping">>
      [] industry = "saas" -> <<"software", "enterprise", "b2b", "cloud">>
      [] industry = "ai/ml" -> <<"artificial intelligence", "machine learning", "data science">>
      [] industry = "mobile" -> <<"mobile app", "ios", "android", "mobile gaming">>
      [] OTHER -> <<>>

\* _calculate_word_similarity(word1, word2) > 0.7
Base_word_similarity_above(word1, word2) == RatioAbove(word1, word2, 7, 10)

\* a variant whose exact match compares the strings as given, case included
Base_calculate_industry_alignment_case_sensitive(startup, vc) ==
    IF ~Truthy(startup.industry) \/ vc.focus_areas = <<>> THEN 0
    ELSE LET startup_industry == Lower(startup.industry)
             vc_focus_areas == LowerAll(vc.focus_areas)
         IN  IF startup.industry \in Range(vc.focus_areas) THEN 10000
             ELSE IF \E focus_area \in Range(vc_focus_areas) :
                        \/ IsSubstring(startup_industry, focus_area)
                        \/ IsSubstring(focus_area, startup_industry)
                        \/ RatioAbove(startup_industry, focus_area, 7, 10)
                  THEN 7500
             ELSE IF \E related \in Range(Base_get_related_industries(startup_industry)) :
                        related \in Range(vc_focus_areas)
                  THEN 5000
             ELSE 0

\* _calculate_industry_alignment
Base_calculate_industry_alignment(startup, vc) ==
    IF ~Truthy(startup.industry) \/ vc.focus_areas = <<>> THEN 0
    ELSE LET startup_industry == Lower(startup.industry)
             vc_focus_areas == LowerAll(vc.focus_areas)
         IN  IF startup_industry \in Range(vc_focus_areas) THEN 10000
             ELSE IF \E focus_area \in Range(vc_focus_areas) :
                        \/ IsSubstring(startup_industry, focus_area)
                        \/ IsSubstring(focus_area, startup_industry)
                        \/ Base_word_similarity_above(startup_industry, focus_area)
                  THEN 7500
             ELSE IF \E related \in Range(Base_get_related_industries(startup_industry)) :
                        related \in Range(vc_focus_areas)
                  THEN 5000
             ELSE 0

\* stage_hierarchy.get(stage, 0) of FitMetricCalculator
Base_stage_hierarchy(stage) ==
    CASE stage = "pre-seed" -> 1
      [] stage = "seed" -> 2
      [] stage = "series-a" -> 3
      [] stage = "series-b" -> 4
      [] stage = "series-c" -> 5
      [] stage = "growth" -> 6
      [] OTHER -> 0

\* the loop over vc_stages: the first stage within distance 2 decides
RECURSIVE Base_stage_loop(_, _)
Base_stage_loop(startup_stage_num, vc_stages) ==
    IF vc_stages = <<>> THEN 0
    ELSE LET vc_stage_num == Base_stage_hierarchy(Head(vc_stages))
         IN  IF Abs(startup_stage_num - vc_stage_num) <= 1 THEN 7500
             ELSE IF Abs(startup_stage_num - vc_stage_num) <= 2 THEN 5000
             ELSE Base_stage_loop(startup_stage_num, Tail(vc_stages))

\* _calculate_stage_alignment
Base_calculate_stage_alignment(startup, vc) ==
    IF ~Truthy(startup.funding_stage) \/ vc.investment_stages = <<>> THEN 0
    ELSE LET startup_stage == Lower(startup.funding_stage)
             vc_stages == LowerAll(vc.investment_stages)
         IN  IF startup_stage \in Range(vc_stages) THEN 10000
             ELSE Base_stage_loop(Base_stage_hierarchy(startup_stage), vc_stages)

\* _get_region
Base_get_region(location) ==
    LET location_lower == Lower(location)
        any(cities) == \E city \in cities : IsSubstring(city, location_lower)
    IN  IF any({"san francisco", "palo alto", "mountain view"}) THEN "bay area"
        ELSE IF any({"new york", "brooklyn", "manhattan"}) THEN "new york"
        ELSE IF any({"austin", "dallas", "houston"}) THEN "texas"
        ELSE IF any({"boston", "cambridge"}) THEN "boston"
        ELSE "other"

\* a variant for which two locations outside the table share no region
Base_calculate_geographic_alignment_other_apart(startup, vc) ==
    IF ~Truthy(startup.location) \/ vc.geographic_focus = <<>> THEN 0
    ELSE LET startup_location == Lower(startup.location)
             vc_locations == LowerAll(vc.geographic_focus)
         IN  IF startup_location \in Range(vc_locations) THEN 10000
             ELSE IF \E part \in Range(Split(startup_location, ", ")) :
                        part \in Range(vc_locations)
                  THEN 7500
             ELSE IF \E vc_loc \in Range(vc_locations) :
                        /\ Base_get_region(startup_location) = Base_get_region(vc_loc)
                        /\ Base_get_region(vc_loc) # "other"
                  THEN 5000
             ELSE 0

\* _calculate_geographic_alignment
Base_calculate_geographic_alignment(startup, vc) ==
    IF ~Truthy(startup.location) \/ vc.geographic_focus = <<>> THEN 0
    ELSE LET startup_location == Lower(startup.location)
             vc_locations == LowerAll(vc.geographic_focus)
         IN  IF startup_location \in Range(vc_locations) THEN 10000
             ELSE IF \E part \in Range(Split(startup_location, ", ")) :
                        part \in Range(vc_locations)
                  THEN 7500
             ELSE IF \E vc_loc \in Range(vc_locations) :
                        Base_get_region(startup_location) = Base_get_region(vc_loc)
                  THEN 5000
             ELSE 0

\* _evaluate_experience_quality: 10 points per keyword found, at most 50
Base_evaluate_experience_quality(experience) ==
    LET relevant_keywords ==
            {"founder", "ceo", "cto", "co-founder", "startup", "entrepreneur",
             "google", "facebook", "amazon", "apple", "microsoft", "netflix",
             "uber", "airbnb", "stripe", "square", "palantir"}
        experience_lower == Lower(experience)
    IN  Min(50, 10 * Cardinality({k \in relevant_keywords : IsSubstring(k, experience_lower)}))

\* the per-founder score of _calculate_network_proximity, in points
Base_founder_network_score(founder) ==
    LET c == founder.linkedin_connections
        e == founder.endorsements
    IN  (IF c = 0 THEN 0
         ELSE IF c > 1000 THEN 30 ELSE IF c > 500 THEN 20 ELSE IF c > 200 THEN 10 ELSE 0)
      + (IF e = 0 THEN 0
         ELSE IF e > 50 THEN 20 ELSE IF e > 20 THEN 15 ELSE IF e > 10 THEN 10 ELSE 0)
      + (IF Truthy(founder.experience)
         THEN Base_evaluate_experience_quality(founder.experience) ELSE 0)

RECURSIVE SumSeq(_)
SumSeq(seq) == IF seq = <<>> THEN 0 ELSE Head(seq) + SumSeq(Tail(seq))

\* _calculate_network_proximity: min(100.0, total_score / founder_count); the
\* quotient is exact in hundredths for teams of 1, 2, 4 or 5 founders
Base_calculate_network_proximity(startup) ==
    LET founder_count == Len(startup.founders)
    IN  IF founder_count = 0 THEN 0
        ELSE Min(10000,
                 (100 * SumSeq([i \in 1..founder_count |->
                                   Base_founder_network_score(startup.founders[i])]))
                 \div founder_count)

\* a variant that weighs the five sub-scores alike
Base_calculate_overall_score_even_weights(text_similarity, industry_alignment, stage_alignment, geographic_alignment, network_proximity) ==
    Round2(text_similarity * 20 + industry_alignment * 20 + stage_alignment * 20
           + geographic_alignment * 20 + network_proximity * 20)

\* _calculate_overall_score: the weighted sum, round(overall_score, 2)
Base_calculate_overall_score(text_similarity, industry_alignment, stage_alignment, geographic_alignment, network_proximity) ==
    Round2(text_similarity * 25 + industry_alignment * 25 + stage_alignment * 20
           + geographic_alignment * 15 + network_proximity * 15)

\* calculate_fit_metrics: the FitMetrics record, or "ValidationError" when the
\* schema rejects a field
Base_calculate_fit_metrics(model, startup, vc) ==
    LET text_similarity == Base_calculate_text_similarity(model, startup, vc)
        industry_alignment == Base_calculate_industry_alignment(startup, vc)
        stage_alignment == Base_calculate_stage_alignment(startup, vc)
        geographic_alignment == Base_calculate_geographic_alignment(startup, vc)
        network_proximity == Base_calculate_network_proximity(startup)
        m == [startup_id |-> startup.name,
              vc_firm |-> vc.name,
              overall_score |-> Base_calculate_overall_score(
                  text_similarity, industry_alignment, stage_alignment,
                  geographic_alignment, network_proximity),
              text_similarity |-> text_similarity,
              industry_alignment |-> industry_alignment,
              stage_alignment |-> stage_alignment,
              geographic_alignment |-> geographic_alignment,
              network_proximity |-> network_proximity]
    IN  [raised |-> ~FitMetricsValid(m), metrics |-> m]

(***************************************************************************)
(* src/utils/parallel_processor.py : CachingProcessor                      *)
(* A cache is a function from keys to [result, timestamp] records.         *)
(***************************************************************************)

\* self.cache_ttl = 3600
cache_ttl == 3600

\* d[k] = v for a dict kept as a function
MapPut(d, k, v) == [x \in (DOMAIN d) \cup {k} |-> IF x = k THEN v ELSE d[x]]

\* a variant for which an entry is still valid when exactly cache_ttl old
Cp_get_cached_result_inclusive(cache, key, time) ==
    IF key \in DOMAIN cache
    THEN IF time - cache[key].timestamp <= cache_ttl
         THEN [hit |-> TRUE, result |-> cache[key].result, cache |-> cache]
         ELSE [hit |-> FALSE, result |-> <<>>,
               cache |-> [x \in (DOMAIN cache) \ {key} |-> cache[x]]]
    ELSE [hit |-> FALSE, result |-> <<>>, cache |-> cache]

\* get_cached_result: whether a result is returned (hit) or None, the result,
\* and the cache afterwards: an expired entry is deleted by the read
Cp_get_cached_result(cache, key, time) ==
    IF key \in DOMAIN cache
    THEN IF time - cache[key].timestamp < cache_ttl
         THEN [hit |-> TRUE, result |-> cache[key].result, cache |-> cache]
         ELSE [hit |-> FALSE, result |-> <<>>,
               cache |-> [x \in (DOMAIN cache) \ {key} |-> cache[x]]]
    ELSE [hit |-> FALSE, result |-> <<>>, cache |-> cache]

\* cache_result
Cp_cache_result(cache, key, result, time) ==
    MapPut(cache, key, [result |-> result, timestamp |-> time])

\* clear_cache
Cp_clear_cache(cache) == <<>>

(***************************************************************************)
(* src/models/optimized_fit_metric.py : OptimizedFitMetricCalculator       *)
(* A calculator is a record [vc_embeddings, lru, cp_cache]; an operation   *)
(* that reads or fills a cache returns its value and the calculator after. *)
(***************************************************************************)

NewCalculator == [vc_embeddings |-> <<>>, lru |-> <<>>, cp_cache |-> <<>>]

\* hashlib.md5(text.encode()).hexdigest(): the digest of a text, kept symbolic
Md5(text) == "md5:" \o text

\* the body of _get_text_embedding, run on an lru miss
Opt_text_embedding_body(calc, model, text, time) ==
    IF text = "" \/ model = NoModel THEN [value |-> Zeros, calc |-> calc]
    ELSE WithValue(Cp_get_cached_result(calc.cp_cache, Md5(text), time),
           LAMBDA got :
             IF got.hit
             THEN [value |-> got.result, calc |-> [calc EXCEPT !.cp_cache = got.cache]]
             ELSE WithValue(Encode(model, text),
                    LAMBDA embedding :
                      [value |-> embedding,
                       calc |-> [calc EXCEPT !.cp_cache =
                                    Cp_cache_result(got.cache, Md5(text), embedding,
                                                    time)]]))

\* _get_text_embedding under @lru_cache(maxsize=1000): a text seen before is
\* answered from the lru cache (fewer than 1000 texts are ever in play here)
Opt_get_text_embedding(calc, model, text, time) ==
    IF text \in DOMAIN calc.lru THEN [value |-> calc.lru[text], calc |-> calc]
    ELSE WithValue(Opt_text_embedding_body(calc, model, text, time),
           LAMBDA r :
             [value |-> r.value,
              calc |-> [r.calc EXCEPT !.lru = MapPut(r.calc.lru, text, r.value)]])

\* _prepare_startup_text: the first two founders, experience cut to 200 characters
RECURSIVE Opt_founder_parts(_)
Opt_founder_parts(founders) ==
    IF founders = <<>> THEN <<>>
    ELSE (IF Truthy(Head(founders).experience)
          THEN <<Prefix(Head(founders).experience, 200)>> ELSE <<>>)
         \o (IF Truthy(Head(founders).title) THEN <<Head(founders).title>> ELSE <<>>)
         \o Opt_founder_parts(Tail(founders))

Opt_prepare_startup_text(startup) ==
    Join((IF Truthy(startup.description) THEN <<startup.description>> ELSE <<>>)
         \o (IF Truthy(startup.industry) THEN <<startup.industry>> ELSE <<>>)
         \o Opt_founder_parts(Prefix(startup.founders, 2)))

\* _prepare_vc_text: 5 focus areas, 10 portfolio companies
Opt_prepare_vc_text(vc) ==
    Join((IF Truthy(vc.investment_thesis) THEN <<vc.investment_thesis>> ELSE <<>>)
         \o Prefix(vc.focus_areas, 5) \o Prefix(vc.portfolio_companies, 10))

\* the key of vc_embeddings
Opt_vc_key(vc) == "vc_" \o vc.name

\* _get_vc_embedding
Opt_get_vc_embedding(calc, model, vc, time) ==
    IF Opt_vc_key(vc) \in DOMAIN calc.vc_embeddings
    THEN [value |-> calc.vc_embeddings[Opt_vc_key(vc)], calc |-> calc]
    ELSE WithValue(Opt_get_text_embedding(calc, model, Opt_prepare_vc_text(vc), time),
           LAMBDA r :
             [value |-> r.value,
              calc |-> [r.calc EXCEPT !.vc_embeddings =
                           MapPut(r.calc.vc_embeddings, Opt_vc_key(vc), r.value)]])

\* _calculate_text_similarity_optimized
Opt_calculate_text_similarity_optimized(calc, model, startup, vc_embedding, time) ==
    WithValue(Opt_get_text_embedding(calc, model, Opt_prepare_startup_text(startup), time),
      LAMBDA r : [value |-> CosineSimilarity100(r.value, vc_embedding), calc |-> r.calc])

\* _calculate_industry_alignment
Opt_calculate_industry_alignment(startup, vc) ==
    IF ~Truthy(startup.industry) \/ vc.focus_areas = <<>> THEN 0
    ELSE LET startup_industry == Lower(startup.industry)
             vc_focus_areas == LowerAll(vc.focus_areas)
         IN  IF startup_industry \in Range(vc_focus_areas) THEN 10000
             ELSE IF \E focus_area \in Range(vc_focus_areas) :
                        \/ IsSubstring(startup_industry, focus_area)
                        \/ IsSubstring(focus_area, startup_industry)
                  THEN 7500
             ELSE 0

\* stage_hierarchy.get(stage, 0) of OptimizedFitMetricCalculator
Opt_stage_hierarchy(stage) ==
    CASE stage = "pre-seed" -> 1
      [] stage = "seed" -> 2
      [] stage = "series-a" -> 3
      [] stage = "series-b" -> 4
      [] OTHER -> 0

\* _calculate_stage_alignment
Opt_calculate_stage_alignment(startup, vc) ==
    IF ~Truthy(startup.funding_stage) \/ vc.investment_stages = <<>> THEN 0
    ELSE LET startup_stage == Lower(startup.funding_stage)
             vc_stages == LowerAll(vc.investment_stages)
             startup_stage_num == Opt_stage_hierarchy(startup_stage)
         IN  IF startup_stage \in Range(vc_stages) THEN 10000
             ELSE IF \E vc_stage \in Range(vc_stages) :
                        Abs(startup_stage_num - Opt_stage_hierarchy(vc_stage)) <= 1
                  THEN 7500
             ELSE 0

\* _calculate_geographic_alignment
Opt_calculate_geographic_alignment(startup, vc) ==
    IF ~Truthy(startup.location) \/ vc.geographic_focus = <<>> THEN 0
    ELSE LET startup_location == Lower(startup.location)
             vc_locations == LowerAll(vc.geographic_focus)
         IN  IF startup_location \in Range(vc_locations) THEN 10000
             ELSE IF \E part \in Range(Split(startup_location, ", ")) :
                        part \in Range(vc_locations)
                  THEN 7500
             ELSE 0

\* _evaluate_experience_fast
Opt_evaluate_experience_fast(experience) ==
    LET relevant_keywords ==
            {"founder", "ceo", "cto", "startup", "google", "facebook", "amazon"}
        experience_lower == Lower(experience)
    IN  Min(50, 10 * Cardinality({k \in relevant_keywords : IsSubstring(k, experience_lower)}))

\* the per-founder score of _calculate_network_proximity, in points
Opt_founder_network_score(founder) ==
    LET c == founder.linkedin_connections
        e == founder.endorsements
    IN  (IF c = 0 THEN 0
         ELSE IF c > 500 THEN 30 ELSE IF c > 200 THEN 20 ELSE IF c > 100 THEN 10 ELSE 0)
      + (IF e = 0 THEN 0
         ELSE IF e > 20 THEN 20 ELSE IF e > 10 THEN 15 ELSE 0)
      + (IF Truthy(founder.experience)
         THEN Opt_evaluate_experience_fast(founder.experience) ELSE 0)

\* _calculate_network_proximity
Opt_calculate_network_proximity(startup) ==
    LET founder_count == Len(startup.founders)
    IN  IF founder_count = 0 THEN 0
        ELSE Min(10000,
                 (100 * SumSeq([i \in 1..founder_count |->
                                   Opt_founder_network_score(startup.founders[i])]))
                 \div founder_count)

\* _calculate_overall_score
Opt_calculate_overall_score(text_similarity, industry_alignment, stage_alignment, geographic_alignment, network_proximity) ==
    Round2(text_similarity * 25 + industry_alignment * 25 + stage_alignment * 20
           + geographic_alignment * 15 + network_proximity * 15)

\* _calculate_single_fit_metrics: the FitMetrics the constructor is given,
\* whether the constructor raises, and the calculator afterwards
Opt_calculate_single_fit_metrics(calc, model, startup, vc, vc_embedding, time) ==
    WithValue(Opt_calculate_text_similarity_optimized(calc, model, startup, vc_embedding, time),
      LAMBDA ts :
        WithValue(<<Opt_calculate_industry_alignment(startup, vc),
                    Opt_calculate_stage_alignment(startup, vc),
                    Opt_calculate_geographic_alignment(startup, vc),
                    Opt_calculate_network_proximity(startup)>>,
          LAMBDA sub :
            WithValue([startup_id |-> startup.name,
                       vc_firm |-> vc.name,
                       overall_score |-> Opt_calculate_overall_score(
                           ts.value, sub[1], sub[2], sub[3], sub[4]),
                       text_similarity |-> ts.value,
                       industry_alignment |-> sub[1],
                       stage_alignment |-> sub[2],
                       geographic_alignment |-> sub[3],
                       network_proximity |-> sub[4]],
              LAMBDA m : [raised |-> ~FitMetricsValid(m), metrics |-> m, calc |-> ts.calc])))

\* a variant of the batch loop that keeps a startup whose FitMetrics is out of range
RECURSIVE Opt_batch_loop_keeps_all(_, _, _, _, _, _, _)
Opt_batch_loop_keeps_all(calc, model, startups, vc, vc_embedding, time, results) ==
    IF startups = <<>> THEN [results |-> results, calc |-> calc]
    ELSE WithValue(Opt_calculate_single_fit_metrics(
                       calc, model, Head(startups), vc, vc_embedding, time),
           LAMBDA r :
             Opt_batch_loop_keeps_all(r.calc, model, Tail(startups), vc, vc_embedding,
                                      time, Append(results, r.metrics)))

\* the loop of calculate_fit_metrics_batch: a startup whose scoring raises is
\* logged and skipped
RECURSIVE Opt_batch_loop(_, _, _, _, _, _, _)
Opt_batch_loop(calc, model, startups, vc, vc_embedding, time, results) ==
    IF startups = <<>> THEN [results |-> results, calc |-> calc]
    ELSE WithValue(Opt_calculate_single_fit_metrics(
                       calc, model, Head(startups), vc, vc_embedding, time),
           LAMBDA r :
             Opt_batch_loop(r.calc, model, Tail(startups), vc, vc_embedding, time,
                            IF r.raised THEN results ELSE Append(results, r.metrics)))

\* calculate_fit_metrics_batch
Opt_calculate_fit_metrics_batch(calc, model, startups, vc, time) ==
    WithValue(Opt_get_vc_embedding(calc, model, vc, time),
      LAMBDA e : Opt_batch_loop(e.calc, model, startups, vc, e.value, time, <<>>))

\* clear_cache
Opt_clear_cache(calc) ==
    [vc_embeddings |-> <<>>, lru |-> <<>>, cp_cache |-> Cp_clear_cache(calc.cp_cache)]

(***************************************************************************)
(* src/metrics/quality_scorer.py : QualityScorer                           *)
(* Founder, company and team scores are in points; the quality score is in *)
(* hundredths.                                                             *)
(***************************************************************************)

\* self.prestigious_companies
prestigious_companies ==
        {"google", "facebook", "meta", "amazon", "apple", "microsoft",
         "netflix", "uber", "airbnb", "stripe", "square", "palantir",
         "tesla", "spacex", "linkedin", "twitter", "snapchat", "instagram",
         "whatsapp", "zoom", "salesforce", "oracle", "adobe", "intel",
         "nvidia", "amd", "cisco", "goldman sachs", "mckinsey", "bain",
         "bcg", "deloitte", "pwc"}

\* self.prestigious_universities
prestigious_universities ==
        {"stanford", "harvard", "mit", "berkeley", "caltech", "princeton",
         "yale", "columbia", "upenn", "cornell", "brown", "dartmouth",
         "duke", "northwestern", "chicago", "nyu", "usc", "ucla", "ucsd",
         "oxford", "cambridge", "imperial", "lse", "eth zurich", "tsinghua"}

\* self.prestigious_honors, as <<honor, points>> pairs
prestigious_honors ==
    <<
        <<"rhodes scholar", 25>>,
        <<"marshall scholar", 25>>,
        <<"fulbright scholar", 20>>,
        <<"gates cambridge", 20>>,
        <<"truman scholar", 18>>,
        <<"goldwater scholar", 15>>,
        <<"churchill scholar", 20>>,
        <<"mitchell scholar", 18>>,
        <<"schwarzman scholar", 20>>,
        <<"knight-hennessy", 25>>,
        <<"neuroscience scholar", 15>>,
        <<"neo scholar", 20>>,
        <<"y combinator", 30>>,
        <<"y combinator alumni", 25>>,
        <<"techstars", 15>>,
        <<"500 startups", 12>>,
        <<"startup chile", 10>>,
        <<"masschallenge", 8>>,
        <<"founder institute", 5>>,
        <<"rise fellow", 25>>,
        <<"kleiner perkins fellow", 25>>,
        <<"kp fellow", 25>>,
        <<"greylock fellow", 25>>,
        <<"sequoia scout", 20>>,
        <<"first round fellow", 20>>,
        <<"andreessen horowitz scout", 20>>,
        <<"a16z scout", 20>>,
        <<"thiel fellow", 30>>,
        <<"thiel fellowship", 30>>,
        <<"forbes 30 under 30", 20>>,
        <<"fortune 40 under 40", 18>>,
        <<"inc 30 under 30", 15>>,
        <<"turing award", 50>>,
        <<"nobel prize", 50>>,
        <<"macarthur fellow", 35>>,
        <<"macarthur genius", 35>>,
        <<"sloan fellow", 25>>,
        <<"packard fellow", 25>>,
        <<"guggenheim fellow", 20>>,
        <<"national science foundation", 15>>,
        <<"nsf graduate fellow", 15>>,
        <<"nsf postdoc", 12>>,
        <<"google science fair", 15>>,
        <<"intel isef", 12>>,
        <<"regeneron sts", 15>>,
        <<"davidson fellow", 15>>,
        <<"google code-in", 8>>,
        <<"google summer of code", 8>>,
        <<"facebook hackathon", 5>>,
        <<"microsoft imagine cup", 8>>,
        <<"west point", 20>>,
        <<"naval academy", 20>>,
        <<"air force academy", 20>>,
        <<"coast guard academy", 18>>,
        <<"merchant marine academy", 15>>,
        <<"white house fellow", 25>>,
        <<"presidential innovation fellow", 20>>,
        <<"google apm", 20>>,
        <<"google associate product manager", 20>>,
        <<"facebook rotpm", 18>>,
        <<"facebook rotational product manager", 18>>,
        <<"microsoft pm", 15>>,
        <<"amazon pm", 15>>,
        <<"apple pm", 15>>,
        <<"uber pm", 12>>,
        <<"airbnb pm", 12>>,
        <<"nature", 20>>,
        <<"science", 20>>,
        <<"cell", 18>>,
        <<"neuron", 15>>,
        <<"pnas", 12>>,
        <<"jama", 15>>,
        <<"lancet", 15>>,
        <<"ieee", 10>>,
        <<"acm", 10>>,
        <<"arxiv", 8>>,
        <<"patent", 10>>,
        <<"patents", 10>>,
        <<"patented", 10>>,
        <<"inventor", 12>>,
        <<"co-inventor", 8>>
    >>

\* \d, and int() of one digit
IsDigit(c) == \E d \in 0..9 : ToString(d) = c
DigitValue(c) == CHOOSE d \in 0..9 : ToString(d) = c

\* int(digits)
RECURSIVE ToInt(_)
ToInt(digits) ==
    IF Len(digits) = 0 THEN 0
    ELSE 10 * ToInt(SubSeq(digits, 1, Len(digits) - 1))
         + DigitValue(SubSeq(digits, Len(digits), Len(digits)))

\* re.findall(r'(\d+)\s*(?:years?|yrs?)', s): the maximal digit runs that are
\* followed, after optional blanks, by "year" or "yr"
YearPatterns(s) ==
    LET ch(i) == SubSeq(s, i, i)
        run(i, j) == /\ i <= j
                     /\ \A k \in i..j : IsDigit(ch(k))
                     /\ (i = 1 \/ ~IsDigit(ch(i - 1)))
                     /\ (j = Len(s) \/ ~IsDigit(ch(j + 1)))
        unit(j) == \E k \in (j + 1)..Len(s) :
                       /\ \A b \in (j + 1)..(k - 1) : ch(b) = " "
                       /\ \/ k + 3 <= Len(s) /\ SubSeq(s, k, k + 3) = "year"
                          \/ k + 1 <= Len(s) /\ SubSeq(s, k, k + 1) = "yr"
    IN  {ToInt(SubSeq(s, p[1], p[2])) :
            p \in {q \in (1..Len(s)) \X (1..Len(s)) : run(q[1], q[2]) /\ unit(q[2])}}

\* _evaluate_experience
Q_evaluate_experience(experience) ==
    IF ~Truthy(experience) THEN 0
    ELSE LET experience_lower == Lower(experience)
             relevant_keywords ==
                 {"founder", "ceo", "cto", "co-founder", "startup", "entrepreneur",
                  "director", "manager", "lead", "senior", "principal", "architect",
                  "vp", "vice president", "head of", "chief", "executive"}
             companies == 12 * Cardinality({c \in prestigious_companies :
                                               IsSubstring(c, experience_lower)})
             keywords == 3 * Cardinality({k \in relevant_keywords :
                                             IsSubstring(k, experience_lower)})
             year_patterns == IF \/ IsSubstring("years", experience_lower)
                                 \/ IsSubstring("yr", experience_lower)
                              THEN YearPatterns(experience_lower) ELSE {}
             years == IF year_patterns = {} THEN 0 ELSE SetMax(year_patterns)
             bonus == IF years >= 10 THEN 15 ELSE IF years >= 5 THEN 12
                      ELSE IF years >= 3 THEN 8 ELSE IF years >= 1 THEN 4 ELSE 0
         IN  Min(35, companies + keywords + bonus)

\* _evaluate_education
Q_evaluate_education(education) ==
    IF ~Truthy(education) THEN 0
    ELSE LET education_lower == Lower(education)
             advanced_degrees == {"phd", "doctorate", "mba", "master", "m.s.", "m.a.", "md"}
             relevant_fields ==
                 {"computer science", "engineering", "business", "economics",
                  "mathematics", "physics", "chemistry", "biology", "medicine",
                  "data science", "statistics", "finance", "marketing"}
         IN  Min(20, 12 * Cardinality({u \in prestigious_universities :
                                          IsSubstring(u, education_lower)})
                     + 8 * Cardinality({d \in advanced_degrees :
                                          IsSubstring(d, education_lower)})
                     + 3 * Cardinality({f \in relevant_fields :
                                          IsSubstring(f, education_lower)}))

\* the points of the honors found in one text
HonorPoints(text) ==
    SumSeq([i \in 1..Len(prestigious_honors) |->
               IF IsSubstring(prestigious_honors[i][1], text)
               THEN prestigious_honors[i][2] ELSE 0])

\* _evaluate_honors
Q_evaluate_honors(founder) ==
    Min(30, (IF Truthy(founder.experience) THEN HonorPoints(Lower(founder.experience)) ELSE 0)
            + (IF Truthy(founder.education) THEN HonorPoints(Lower(founder.education)) ELSE 0)
            + (IF Truthy(founder.name) /\ IsSubstring("dr.", Lower(founder.name))
               THEN 10 ELSE 0))

\* a variant whose lowest paid tier is worth more than the next one
Q_connections_bonus_uneven(c) ==
    IF c = 0 THEN 0
    ELSE IF c > 1000 THEN 10 ELSE IF c > 500 THEN 8
    ELSE IF c > 200 THEN 6 ELSE IF c > 100 THEN 7 ELSE 0

\* the connections bonus of _evaluate_network
Q_connections_bonus(c) ==
    IF c = 0 THEN 0
    ELSE IF c > 1000 THEN 10 ELSE IF c > 500 THEN 8
    ELSE IF c > 200 THEN 6 ELSE IF c > 100 THEN 4 ELSE 0

\* a variant in which a count on a boundary falls in the upper tier
Q_endorsements_bonus_inclusive(e) ==
    IF e = 0 THEN 0
    ELSE IF e >= 50 THEN 5 ELSE IF e >= 20 THEN 4 ELSE IF e >= 10 THEN 3 ELSE 0

\* the endorsements bonus of _evaluate_network
Q_endorsements_bonus(e) ==
    IF e = 0 THEN 0
    ELSE IF e > 50 THEN 5 ELSE IF e > 20 THEN 4 ELSE IF e > 10 THEN 3 ELSE 0

\* _evaluate_network
Q_evaluate_network(founder) ==
    Min(15, Q_connections_bonus(founder.linkedin_connections)
            + Q_endorsements_bonus(founder.endorsements))

\* _calculate_founder_quality
Q_calculate_founder_quality(founder) ==
    Min(100, Q_evaluate_experience(founder.experience)
             + Q_evaluate_education(founder.education)
             + Q_evaluate_honors(founder)
             + Q_evaluate_network(founder))

\* current_year = 2024 in _calculate_company_quality
current_year == 2024

\* _calculate_company_quality
Q_calculate_company_quality(company) ==
    LET relevant_industries == {"fintech", "healthtech", "ai", "ml", "saas", "e-commerce",
                                "marketplace", "mobile", "software", "technology"}
        top_locations == {"san francisco", "new york", "austin", "boston",
                          "seattle", "los angeles", "chicago", "miami"}
        desc_length == IF Truthy(company.description) THEN Len(company.description) ELSE 0
        age == current_year - company.founded_year
    IN  Min(100,
            (IF desc_length > 200 THEN 20 ELSE IF desc_length > 100 THEN 15
             ELSE IF desc_length > 50 THEN 10 ELSE 0)
          + (IF Truthy(company.industry)
                /\ \E r \in relevant_industries : IsSubstring(r, Lower(company.industry))
             THEN 15 ELSE 0)
          + (IF Truthy(company.location)
                /\ \E l \in top_locations : IsSubstring(l, Lower(company.location))
             THEN 10 ELSE 0)
          + (IF company.founded_year = 0 THEN 0
             ELSE IF age <= 3 THEN 15 ELSE IF age <= 5 THEN 10
             ELSE IF age <= 10 THEN 5 ELSE 0))

\* the role one founder's title adds in _calculate_team_completeness
Q_title_roles(title) ==
    IF ~Truthy(title) THEN {}
    ELSE LET title_lower == Lower(title)
             has(w) == IsSubstring(w, title_lower)
         IN  IF has("ceo") \/ has("founder") THEN {"ceo"}
             ELSE IF has("cto") \/ has("tech") THEN {"cto"}
             ELSE IF has("cpo") \/ has("product") THEN {"cpo"}
             ELSE IF has("cmo") \/ has("marketing") THEN {"cmo"}
             ELSE IF has("cfo") \/ has("finance") THEN {"cfo"}
             ELSE {}

\* _calculate_team_completeness
Q_calculate_team_completeness(founders) ==
    LET founder_count == Len(founders)
        roles == UNION {Q_title_roles(founders[i].title) : i \in 1..founder_count}
        key_roles == {"ceo", "cto", "cpo"}
    IN  Min(100,
            (IF founder_count >= 3 THEN 30 ELSE IF founder_count = 2 THEN 25
             ELSE IF founder_count = 1 THEN 15 ELSE 0)
          + (IF Cardinality(roles) >= 3 THEN 40 ELSE IF Cardinality(roles) = 2 THEN 30
             ELSE IF Cardinality(roles) = 1 THEN 20 ELSE 0)
          + (IF key_roles \subseteq roles THEN 30
             ELSE IF Cardinality(key_roles \cap roles) >= 2 THEN 20
             ELSE IF Cardinality(key_roles \cap roles) >= 1 THEN 10 ELSE 0))

\* a variant without the test for an empty founders list, the founders' part
\* of the weighted sum then being 0
Q_calculate_quality_score_no_empty_test(startup) ==
    LET n == Len(startup.founders)
        founder_scores == [i \in 1..n |-> Q_calculate_founder_quality(startup.founders[i])]
    IN  Round2((IF n = 0 THEN 0 ELSE (6000 * SumSeq(founder_scores)) \div n)
               + 2500 * Q_calculate_company_quality(startup)
               + 1500 * Q_calculate_team_completeness(startup.founders))

\* a variant that weighs the sum of the founder scores, not their mean
Q_calculate_quality_score_sum_of_founders(startup) ==
    IF startup.founders = <<>> THEN 0
    ELSE LET n == Len(startup.founders)
             founder_scores == [i \in 1..n |-> Q_calculate_founder_quality(startup.founders[i])]
         IN  Round2(6000 * SumSeq(founder_scores)
                    + 2500 * Q_calculate_company_quality(startup)
                    + 1500 * Q_calculate_team_completeness(startup.founders))

\* calculate_quality_score, in hundredths: 0.6 x the mean founder score
\* + 0.25 x the company score + 0.15 x the team score, round(.., 2); the mean
\* times 6000 is a whole number for teams of up to 6 founders
Q_calculate_quality_score(startup) ==
    IF startup.founders = <<>> THEN 0
    ELSE LET n == Len(startup.founders)
             founder_scores == [i \in 1..n |-> Q_calculate_founder_quality(startup.founders[i])]
         IN  Round2((6000 * SumSeq(founder_scores)) \div n
                    + 2500 * Q_calculate_company_quality(startup)
                    + 1500 * Q_calculate_team_completeness(startup.founders))

(***************************************************************************)
(* src/unified_vc_sourcing_agent.py : UnifiedVCSourcingAgent               *)
(***************************************************************************)

\* _calculate_similarity(text1, text2) > num/den
Agent_similarity_above(text1, text2, num, den) == RatioAbove(text1, text2, num, den)

\* the variations _generate_search_keywords adds for one focus area
Agent_keyword_variations(focus_area) ==
    LET f == Lower(focus_area)
    IN  CASE f = "ai/ml" -> {"AI", "machine learning", "artificial intelligence"}
          [] f = "fintech" -> {"fintech", "financial technology", "payments", "banking"}
          [] f = "saas" -> {"SaaS", "software as a service", "enterprise", "B2B"}
          [] f = "healthcare" -> {"healthcare", "digital health", "telemedicine", "medtech"}
          [] f = "consumer" -> {"consumer", "B2C", "marketplace", "ecommerce"}
          [] f = "enterprise" -> {"enterprise", "B2B", "SaaS", "software"}
          [] f = "technology" -> {"software", "AI", "machine learning", "platform", "tech"}
          [] OTHER -> {}

\* _generate_search_keywords: list(set(keywords))[:12]; the order of a set is
\* not fixed, only the keywords and their number are modelled
Agent_generate_search_keywords(vc) ==
    UNION {{vc.focus_areas[i]} \cup Agent_keyword_variations(vc.focus_areas[i]) :
              i \in 1..Len(vc.focus_areas)}

\* a variant that compares the names as they are written
RECURSIVE Agent_remove_duplicates_loop_raw_names(_, _, _)
Agent_remove_duplicates_loop_raw_names(startups, seen, unique_startups) ==
    IF startups = <<>> THEN unique_startups
    ELSE LET company_name == Head(startups).name
         IN  IF company_name \notin seen
             THEN Agent_remove_duplicates_loop_raw_names(
                      Tail(startups), seen \cup {company_name},
                      Append(unique_startups, Head(startups)))
             ELSE Agent_remove_duplicates_loop_raw_names(Tail(startups), seen,
                                                         unique_startups)

\* _remove_duplicates: the first startup of each lower-cased, stripped name
RECURSIVE Agent_remove_duplicates_loop(_, _, _)
Agent_remove_duplicates_loop(startups, seen, unique_startups) ==
    IF startups = <<>> THEN unique_startups
    ELSE LET company_name == Strip(Lower(Head(startups).name))
         IN  IF company_name \notin seen
             THEN Agent_remove_duplicates_loop(Tail(startups), seen \cup {company_name},
                                               Append(unique_startups, Head(startups)))
             ELSE Agent_remove_duplicates_loop(Tail(startups), seen, unique_startups)

Agent_remove_duplicates(startups) == Agent_remove_duplicates_loop(startups, {}, <<>>)

\* a variant that records a portfolio company once, under the first check it
\* fails, however many checks it fails
Agent_company_conflict_types_first_only(startup, portfolio_company) ==
    IF RatioAbove(Lower(startup.name), Lower(portfolio_company.name), 7, 10)
    THEN <<"name_similarity">>
    ELSE IF /\ Truthy(startup.industry)
            /\ Truthy(portfolio_company.industry)
            /\ Lower(startup.industry) = Lower(portfolio_company.industry)
    THEN <<"industry_conflict">>
    ELSE IF /\ Truthy(startup.description)
            /\ Truthy(portfolio_company.description)
            /\ RatioAbove(Lower(startup.description),
                          Lower(portfolio_company.description), 6, 10)
    THEN <<"business_model_conflict">>
    ELSE <<>>

\* the three checks of _detect_portfolio_conflicts for one portfolio company:
\* the conflict types it adds, in the order the code appends them
Agent_company_conflict_types(startup, portfolio_company) ==
    (IF Agent_similarity_above(Lower(startup.name), Lower(portfolio_company.name), 7, 10)
     THEN <<"name_similarity">> ELSE <<>>)
    \o (IF /\ Truthy(startup.industry)
           /\ Truthy(portfolio_company.industry)
           /\ Lower(startup.industry) = Lower(portfolio_company.industry)
        THEN <<"industry_conflict">> ELSE <<>>)
    \o (IF /\ Truthy(startup.description)
           /\ Truthy(portfolio_company.description)
           /\ Agent_similarity_above(Lower(startup.description),
                                     Lower(portfolio_company.description), 6, 10)
        THEN <<"business_model_conflict">> ELSE <<>>)

\* the loop of _detect_portfolio_conflicts
RECURSIVE Agent_conflict_loop(_, _, _)
Agent_conflict_loop(startup, portfolio_companies, conflicts) ==
    IF portfolio_companies = <<>> THEN conflicts
    ELSE LET pc == Head(portfolio_companies)
             types == Agent_company_conflict_types(startup, pc)
         IN  Agent_conflict_loop(startup, Tail(portfolio_companies),
                 [conflicts EXCEPT
                     !.has_conflicts = @ \/ types # <<>>,
                     !.conflict_companies = @ \o [i \in 1..Len(types) |-> pc.name],
                     !.conflict_types = @ \o types])

\* a variant whose severity is "high" from two entries on
Agent_conflict_severity_high_from_two(conflict_companies) ==
    IF Len(conflict_companies) >= 2 THEN "high"
    ELSE IF Len(conflict_companies) > 0 THEN "medium"
    ELSE "none"

\* the severity _detect_portfolio_conflicts sets from the accumulated entries
Agent_conflict_severity(conflict_companies) ==
    IF Len(conflict_companies) > 2 THEN "high"
    ELSE IF Len(conflict_companies) > 0 THEN "medium"
    ELSE "none"

\* _detect_portfolio_conflicts, given the resolved portfolio list
Agent_detect_portfolio_conflicts(startup, portfolio_companies) ==
    LET c == Agent_conflict_loop(startup, portfolio_companies,
                 [has_conflicts |-> FALSE, conflict_companies |-> <<>>,
                  conflict_types |-> <<>>, severity |-> "none"])
    IN  [c EXCEPT !.severity = Agent_conflict_severity(c.conflict_companies)]

\* industry_counts[industry] of _calculate_portfolio_fit
Agent_industry_count(portfolio_companies, industry) ==
    Cardinality({i \in 1..Len(portfolio_companies) :
                    portfolio_companies[i].industry = industry})

\* a variant that calls an industry over-represented from five companies on
Agent_calculate_portfolio_fit_over_from_five(startup, portfolio_companies) ==
    IF portfolio_companies = <<>>
    THEN [portfolio_fit_score |-> 5000, reasoning |-> <<"No portfolio data available">>]
    ELSE LET count == Cardinality({i \in 1..Len(portfolio_companies) :
                                      portfolio_companies[i].industry = startup.industry})
         IN  IF count = 0
             THEN [portfolio_fit_score |-> 7500,
                   reasoning |-> <<"New industry for portfolio">>]
             ELSE IF count >= 5
             THEN [portfolio_fit_score |-> 3000, reasoning |-> <<"Industry over-represented">>]
             ELSE IF count > 2
             THEN [portfolio_fit_score |-> 5000, reasoning |-> <<"Industry well-represented">>]
             ELSE [portfolio_fit_score |-> 6500, reasoning |-> <<"Industry under-represented">>]

\* a variant without the test for an empty portfolio
Agent_calculate_portfolio_fit_no_empty_test(startup, portfolio_companies) ==
    LET count == Cardinality({i \in 1..Len(portfolio_companies) :
                                 portfolio_companies[i].industry = startup.industry})
    IN  IF count = 0
        THEN [portfolio_fit_score |-> 7500, reasoning |-> <<"New industry for portfolio">>]
        ELSE IF count > 5
        THEN [portfolio_fit_score |-> 3000, reasoning |-> <<"Industry over-represented">>]
        ELSE IF count > 2
        THEN [portfolio_fit_score |-> 5000, reasoning |-> <<"Industry well-represented">>]
        ELSE [portfolio_fit_score |-> 6500, reasoning |-> <<"Industry under-represented">>]

\* _calculate_portfolio_fit, given the resolved portfolio list
Agent_calculate_portfolio_fit(startup, portfolio_companies) ==
    IF portfolio_companies = <<>>
    THEN [portfolio_fit_score |-> 5000, reasoning |-> <<"No portfolio data available">>]
    ELSE LET count == Agent_industry_count(portfolio_companies, startup.industry)
             tail == " (" \o ToString(count) \o " companies)"
         IN  IF count = 0
             THEN [portfolio_fit_score |-> 7500,
                   reasoning |-> <<"New industry for portfolio">>]
             ELSE IF count > 5
             THEN [portfolio_fit_score |-> 3000,
                   reasoning |-> <<"Industry over-represented" \o tail>>]
             ELSE IF count > 2
             THEN [portfolio_fit_score |-> 5000,
                   reasoning |-> <<"Industry well-represented" \o tail>>]
             ELSE [portfolio_fit_score |-> 6500,
                   reasoning |-> <<"Industry under-represented" \o tail>>]

\* _analyze_startup_pros_cons; startup carries quality_score, portfolio_fit and
\* portfolio_conflicts
Agent_analyze_startup_pros_cons(startup, metric) ==
    [pros |->
        (IF metric.overall_score > 8000 THEN <<"Excellent fit with VC criteria">>
         ELSE IF metric.overall_score > 6000 THEN <<"Good fit with VC criteria">>
         ELSE <<>>)
        \o (IF startup.quality_score > 8000 THEN <<"High quality founders">> ELSE <<>>)
        \o (IF startup.portfolio_fit.portfolio_fit_score > 7000
            THEN <<"Good portfolio fit">> ELSE <<>>),
     cons |->
        (IF metric.overall_score > 6000 THEN <<>> ELSE <<"Poor fit with VC criteria">>)
        \o (IF startup.quality_score < 5000 THEN <<"Low quality founders">> ELSE <<>>)
        \o (IF startup.portfolio_fit.portfolio_fit_score < 4000
            THEN <<"Poor portfolio fit">> ELSE <<>>)
        \o (IF startup.portfolio_conflicts.has_conflicts
            THEN <<"Conflicts with "
                   \o ToString(Len(startup.portfolio_conflicts.conflict_companies))
                   \o " portfolio companies">>
            ELSE <<>>)]

\* a variant that takes one tier off a strong match that has cons
Agent_get_startup_recommendation_minds_cons(score, pros, cons) ==
    IF score >= 80000 /\ cons = <<>> THEN "Strong Match - Highly recommend"
    ELSE IF score >= 65000 THEN "Good Match - Worth considering"
    ELSE IF score >= 50000 THEN "Moderate Match - Review further"
    ELSE "Weak Match - Low priority"

\* _get_startup_recommendation; score is the combined score, in thousandths
Agent_get_startup_recommendation(score, pros, cons) ==
    IF score >= 80000 THEN "Strong Match - Highly recommend"
    ELSE IF score >= 65000 THEN "Good Match - Worth considering"
    ELSE IF score >= 50000 THEN "Moderate Match - Review further"
    ELSE "Weak Match - Low priority"

\* a variant that overrides the recommendation for severity "high" only
Agent_override_recommendation_high_only(recommendation, portfolio_conflicts) ==
    IF portfolio_conflicts.has_conflicts /\ portfolio_conflicts.severity = "high"
    THEN "High Conflict - Avoid"
    ELSE recommendation

\* the recommendation after the conflict override of _create_startup_analysis
Agent_override_recommendation(recommendation, portfolio_conflicts) ==
    IF portfolio_conflicts.has_conflicts
    THEN IF portfolio_conflicts.severity = "high" THEN "High Conflict - Avoid"
         ELSE IF portfolio_conflicts.severity = "medium"
              THEN "Moderate Conflict - Review carefully"
         ELSE recommendation
    ELSE recommendation

\* a variant that leaves the portfolio fit out for a startup with conflicts
Agent_combined_score_without_fit_on_conflict(overall_score, startup) ==
    IF startup.portfolio_conflicts.has_conflicts
    THEN 4 * overall_score + 3 * startup.quality_score
    ELSE 4 * overall_score + 3 * startup.quality_score
         + 3 * startup.portfolio_fit.portfolio_fit_score

\* combined_score of _create_startup_analysis, in thousandths of a point:
\* 0.4 x overall + 0.3 x quality + 0.3 x portfolio fit
Agent_combined_score(overall_score, startup) ==
    4 * overall_score + 3 * startup.quality_score
    + 3 * startup.portfolio_fit.portfolio_fit_score

\* the result dict _create_startup_analysis builds for one metric
Agent_result(metric, startup) ==
    LET combined_score == Agent_combined_score(metric.overall_score, startup)
        pc == Agent_analyze_startup_pros_cons(startup, metric)
    IN  [company_name |-> startup.name,
         industry |-> startup.industry,
         fit_metrics |-> [overall_score |-> combined_score,
                          fit_score |-> metric.overall_score,
                          quality_score |-> startup.quality_score,
                          portfolio_fit_score |-> startup.portfolio_fit.portfolio_fit_score,
                          portfolio_conflicts |-> startup.portfolio_conflicts,
                          text_similarity |-> metric.text_similarity],
         recommendation |-> Agent_override_recommendation(
             Agent_get_startup_recommendation(combined_score, pc.pros, pc.cons),
             startup.portfolio_conflicts),
         pros |-> pc.pros,
         cons |-> pc.cons]

\* startup_map.get(metric.startup_id): the dict comprehension keeps, for a name
\* that occurs twice, the last startup of that name
Agent_startup_map_get(startups, startup_id) ==
    startups[CHOOSE i \in 1..Len(startups) :
                /\ startups[i].name = startup_id
                /\ \A j \in (i + 1)..Len(startups) : startups[j].name # startup_id]

\* startup_id in startup_map
Agent_startup_map_has(startups, startup_id) ==
    \E i \in 1..Len(startups) : startups[i].name = startup_id

\* list.sort(key=key, reverse=True): a stable sort, descending by key; an
\* item comes after the items of a higher key and the earlier items of its key
SortDescending(seq, key(_)) ==
    LET n == Len(seq)
        before == [i \in 1..n |->
                      Cardinality({j \in 1..n :
                          \/ key(seq[j]) > key(seq[i])
                          \/ (key(seq[j]) = key(seq[i]) /\ j < i)})]
    IN  [k \in 1..n |-> seq[CHOOSE i \in 1..n : before[i] = k - 1]]

\* the loop of _create_startup_analysis over fit_metrics
RECURSIVE Agent_analysis_loop(_, _, _)
Agent_analysis_loop(fit_metrics, startups, detailed_results) ==
    IF fit_metrics = <<>> THEN detailed_results
    ELSE LET startup_id == Head(fit_metrics).startup_id
         IN  Agent_analysis_loop(Tail(fit_metrics), startups,
                 IF ~Agent_startup_map_has(startups, startup_id) THEN detailed_results
                 ELSE Append(detailed_results,
                             Agent_result(Head(fit_metrics),
                                          Agent_startup_map_get(startups, startup_id))))

\* a variant that sorts by the fit score instead of the combined score
Agent_create_startup_analysis_by_fit_score(fit_metrics, startups) ==
    SortDescending(Agent_analysis_loop(fit_metrics, startups, <<>>),
                   LAMBDA result : result.fit_metrics.fit_score)

\* _create_startup_analysis
Agent_create_startup_analysis(fit_metrics, startups) ==
    SortDescending(Agent_analysis_loop(fit_metrics, startups, <<>>),
                   LAMBDA result : result.fit_metrics.overall_score)

(***************************************************************************)
(* Records of src/data/schemas.py and the inputs the scorers are probed    *)
(* with                                                                    *)
(***************************************************************************)

\* FounderProfile.  The code tests the Optional[int] fields only for truth,
\* which None and 0 answer alike, so an int field that is None is written 0.
MkFounder(name, title, experience, education, linkedin_connections, endorsements) ==
    [name |-> name, title |-> title, experience |-> experience, education |-> education,
     linkedin_connections |-> linkedin_connections, endorsements |-> endorsements]

\* StartupProfile as the scrapers return it, its CompanyProfile flattened in;
\* quality_score, portfolio_conflicts and portfolio_fit are None until
\* source_startups_for_vc assigns them, and are added as fields then
MkStartup(name, description, industry, location, funding_stage, founded_year, founders) ==
    [name |-> name, description |-> description, industry |-> industry,
     location |-> location, funding_stage |-> funding_stage,
     founded_year |-> founded_year, founders |-> founders]

\* VCProfile
MkVC(name, investment_thesis, focus_areas, investment_stages, geographic_focus, portfolio_companies) ==
    [name |-> name, investment_thesis |-> investment_thesis, focus_areas |-> focus_areas,
     investment_stages |-> investment_stages, geographic_focus |-> geographic_focus,
     portfolio_companies |-> portfolio_companies]

\* PortfolioCompany
MkPortfolioCompany(name, industry, description) ==
    [name |-> name, industry |-> industry, description |-> description]

\* sequences over S of length at most n
SeqsUpTo(S, n) == UNION {[1..k -> S] : k \in 0..n}

\* the longest investment_stages list probed
MaxVcStages == 2

\* the longest focus_areas list probed
MaxFocusAreas == 2

\* the longest geographic_focus list probed
MaxGeographicFocus == 2

\* the longest pros and cons lists probed
MaxProsCons == 2

\* the largest team probed by _calculate_team_completeness
MaxTeam == 3

StartupStages ==
    {NONE, "", "seed", "Seed", "pre-seed", "series-a", "Series-B", "series-c",
     "growth", "ipo"}
VcStages == {"pre-seed", "Seed", "series-a", "series-b", "series-c", "Growth", "bridge"}

Founder_Ada ==
    MkFounder("Dr. Ada Li", "CEO & Founder",
              "Founder, ex-Google, 12 years", "Stanford PhD computer science", 1200, 60)
Founder_Bo ==
    MkFounder("Bo Chen", "CTO", "startup engineer 3 yrs", NONE, 150, 11)
Founder_Cy ==
    MkFounder("Cy Diaz", NONE, NONE, "", 0, 0)
\* a founder whose texts earn more than each cap
Founder_Eve ==
    MkFounder("Dr. Eve Roy", "CPO",
              "Founder, CEO, ex-Google, ex-Meta lead, 10 years, Thiel Fellow",
              "MIT PhD physics, Rhodes Scholar", 1001, 51)

FitStartups ==
    {MkStartup("PayFlow", "payments app", "Fintech", "San Francisco, CA", "Seed", 2022,
               <<Founder_Ada>>),
     MkStartup("Medix", "health app", "healthtech", "Boston", "series-b", 2010,
               <<Founder_Bo, Founder_Cy>>),
     MkStartup("Nil", NONE, NONE, NONE, NONE, 0, <<>>),
     MkStartup("Koala", "", "AI/ML", "austin, tx", "growth", 2030,
               <<Founder_Ada, Founder_Bo>>)}

FitVCs ==
    {MkVC("Accel", "seed software", <<"AI/ML", "Fintech">>, <<"Seed", "Series A">>,
          <<"San Francisco">>, <<"Slack">>),
     MkVC("Greylock", NONE, <<"Healthcare", "payments">>, <<"growth">>,
          <<"Cambridge", "TX">>, <<>>),
     MkVC("Empty", NONE, <<>>, <<>>, <<>>, <<>>)}

\* a company description of 60 characters
LongDescription == "A payments platform for small shops and their loyal clients."

\* the companies whose teams are probed by calculate_quality_score
QualityCompanies ==
    {MkStartup("S", NONE, NONE, NONE, NONE, 0, <<>>),
     MkStartup("S", LongDescription, "Fintech", "Boston, MA", NONE, 2022, <<>>)}

\* the teams probed by calculate_quality_score
QualityTeams ==
    {<<Founder_Ada>>, <<Founder_Bo>>, <<Founder_Bo, Founder_Cy>>,
     <<Founder_Cy, Founder_Ada, Founder_Bo>>}

\* linkedin_connections on both sides of each tier boundary of _evaluate_network
\* (an absent count is written 0)
ConnectionCounts == {0, 100, 101, 200, 201, 500, 501, 1000, 1001}

\* the embedding models that may be loaded; NoModel when loading failed
EmbeddingModels == {NoModel, 1, 3}

(***************************************************************************)
(* SpecScore: the scorers called directly.  The initial state holds the    *)
(* arguments of one call, drawn from the sets above; the action makes the  *)
(* call and records what it returned.                                      *)
(***************************************************************************)

InitScore ==
    /\ portfolio_cache = <<>>
    /\ first_return = <<>>
    /\ fit_calculator = NewCalculator
    /\ now = 0
    /\ stored = <<>>
    /\ tasks = <<>>
    /\ semaphore = 0
    /\ frame = <<>>
    /\ \/ \E funding_stage \in StartupStages,
             stages \in SeqsUpTo(VcStages, MaxVcStages) :
               last = [op |-> "call _calculate_stage_alignment",
                       funding_stage |-> funding_stage,
                       investment_stages |-> stages]
       \/ \E startup \in FitStartups, vc \in FitVCs,
             fit_model \in {NONE, "RandomForestRegressor"} :
               last = [op |-> "call calculate_fit_metrics", startup |-> startup, vc |-> vc,
                       fit_model |-> fit_model]
       \/ \E text_similarity \in {-10000, 0, 4217, 10000},
             industry_alignment \in {0, 5000, 7500, 10000},
             stage_alignment \in {0, 5000, 7500, 10000},
             geographic_alignment \in {0, 5000, 7500, 10000},
             network_proximity \in {0, 3333, 6250, 10000} :
               last = [op |-> "call _calculate_overall_score",
                       text_similarity |-> text_similarity,
                       industry_alignment |-> industry_alignment,
                       stage_alignment |-> stage_alignment,
                       geographic_alignment |-> geographic_alignment,
                       network_proximity |-> network_proximity]
       \/ \E industry \in {NONE, "", "fintech", "FinTech", "AI/ML", "Biotch", "SaaS",
                              "Robotics"},
             focus_areas \in SeqsUpTo({"Fintech", "payments", "AI", "biotech", "Software",
                                       ""}, MaxFocusAreas) :
               last = [op |-> "call _calculate_industry_alignment",
                       industry |-> industry, focus_areas |-> focus_areas]
       \/ \E score \in {-4000, 0, 49999, 50000, 50001, 64999, 65000, 65001, 79999, 80000,
                           80001, 100000},
             pros \in SeqsUpTo({"Strong founder quality", "Good strategic fit"}, MaxProsCons),
             cons \in SeqsUpTo({"Low founder quality", "Conflicts with 1 portfolio companies"},
                               MaxProsCons) :
               last = [op |-> "call _get_startup_recommendation",
                       score |-> score, pros |-> pros, cons |-> cons]
       \/ \E founder \in {Founder_Ada, Founder_Bo, Founder_Cy, Founder_Eve},
             linkedin_connections \in ConnectionCounts,
             endorsements \in {0, 10, 11, 20, 21, 50, 51} :
               last = [op |-> "call _calculate_founder_quality",
                       founder |-> [founder EXCEPT
                                       !.linkedin_connections = linkedin_connections,
                                       !.endorsements = endorsements]]
       \/ \E titles \in SeqsUpTo({NONE, "CEO", "CTO", "Co-Founder & CTO", "cpo",
                                   "Head of Marketing", "Advisor"}, MaxTeam) :
               last = [op |-> "call _calculate_team_completeness",
                       founders |-> [i \in 1..Len(titles) |->
                                        MkFounder("F", titles[i], NONE, NONE, 0, 0)]]
       \/ \E location \in {NONE, "", "San Francisco, CA", "Palo Alto", "Austin, TX",
                              "Paris", "new york"},
             geographic_focus \in SeqsUpTo({"San Francisco", "CA", "Berlin", "Brooklyn",
                                            "austin, tx", "Mountain View"}, MaxGeographicFocus) :
               last = [op |-> "call _calculate_geographic_alignment",
                       location |-> location, geographic_focus |-> geographic_focus]
       \/ \E description \in {NONE, "", LongDescription},
             industry \in {NONE, "Fintech", "Biotech"},
             location \in {NONE, "Boston, MA", "Paris"},
             founded_year \in {0, 2022, 2010} :
               last = [op |-> "call calculate_quality_score",
                       startup |-> MkStartup("S", description, industry, location, NONE,
                                             founded_year, <<>>),
                       founder |-> 0, connections |-> 0]
       \/ \E company \in QualityCompanies, founders \in QualityTeams :
           \E founder \in 1..Len(founders) :
           \E c1 \in ConnectionCounts, c2 \in ConnectionCounts :
               /\ c1 <= c2
               /\ last = [op |-> "call calculate_quality_score",
                          startup |-> [company EXCEPT !.founders =
                                          [founders EXCEPT ![founder].linkedin_connections = c1]],
                          founder |-> founder, connections |-> c2]
    \* only calculate_fit_metrics reads the embedding model
    /\ encoder \in IF last.op = "call calculate_fit_metrics" THEN EmbeddingModels
                   ELSE {NoModel}

\* _calculate_stage_alignment of both calculators
ProbeStage ==
    /\ last.op = "call _calculate_stage_alignment"
    /\ LET startup == MkStartup("S", NONE, NONE, NONE, last.funding_stage, 0, <<>>)
           vc == MkVC("V", NONE, <<>>, last.investment_stages, <<>>, <<>>)
       IN  last' = [op |-> "_calculate_stage_alignment",
                    funding_stage |-> last.funding_stage,
                    investment_stages |-> last.investment_stages,
                    base |-> Base_calculate_stage_alignment(startup, vc),
                    optimized |-> Opt_calculate_stage_alignment(startup, vc)]
    /\ UNCHANGED <<portfolio_cache, first_return, fit_calculator, now, encoder>>
    /\ UNCHANGED processor_vars

\* _calculate_industry_alignment of both calculators
ProbeIndustry ==
    /\ last.op = "call _calculate_industry_alignment"
    /\ LET startup == MkStartup("S", NONE, last.industry, NONE, NONE, 0, <<>>)
           vc == MkVC("V", NONE, last.focus_areas, <<>>, <<>>, <<>>)
       IN  last' = [op |-> "_calculate_industry_alignment",
                    industry |-> last.industry,
                    focus_areas |-> last.focus_areas,
                    base |-> Base_calculate_industry_alignment(startup, vc),
                    optimized |-> Opt_calculate_industry_alignment(startup, vc)]
    /\ UNCHANGED <<portfolio_cache, first_return, fit_calculator, now, encoder>>
    /\ UNCHANGED processor_vars

\* _calculate_geographic_alignment of both calculators
ProbeGeographic ==
    /\ last.op = "call _calculate_geographic_alignment"
    /\ LET startup == MkStartup("S", NONE, NONE, last.location, NONE, 0, <<>>)
           vc == MkVC("V", NONE, <<>>, <<>>, last.geographic_focus, <<>>)
       IN  last' = [op |-> "_calculate_geographic_alignment",
                    location |-> last.location,
                    geographic_focus |-> last.geographic_focus,
                    base |-> Base_calculate_geographic_alignment(startup, vc),
                    optimized |-> Opt_calculate_geographic_alignment(startup, vc)]
    /\ UNCHANGED <<portfolio_cache, first_return, fit_calculator, now, encoder>>
    /\ UNCHANGED processor_vars

\* calculate_quality_score of QualityScorer and the scores it is made of, and
\* calculate_quality_score once more after one founder's linkedin_connections
\* was set to another count
ProbeQuality ==
    /\ last.op = "call calculate_quality_score"
    /\ LET startup == last.startup
           founders == startup.founders
           more == IF last.founder = 0 THEN startup
                   ELSE [startup EXCEPT
                            !.founders[last.founder].linkedin_connections = last.connections]
       IN  last' = [op |-> "calculate_quality_score",
                    startup |-> startup,
                    founder |-> last.founder,
                    connections |-> last.connections,
                    quality_score |-> Q_calculate_quality_score(startup),
                    founder_scores |-> [i \in 1..Len(founders) |->
                                           Q_calculate_founder_quality(founders[i])],
                    network_scores |-> [i \in 1..Len(founders) |->
                                           Q_evaluate_network(founders[i])],
                    company_score |-> Q_calculate_company_quality(startup),
                    team_score |-> Q_calculate_team_completeness(founders),
                    more_quality_score |-> Q_calculate_quality_score(more),
                    more_network_scores |-> [i \in 1..Len(founders) |->
                                                Q_evaluate_network(more.founders[i])]]
    /\ UNCHANGED <<portfolio_cache, first_return, fit_calculator, now, encoder>>
    /\ UNCHANGED processor_vars

\* _calculate_founder_quality of QualityScorer and the four sub-scores it adds
ProbeFounder ==
    /\ last.op = "call _calculate_founder_quality"
    /\ last' = [op |-> "_calculate_founder_quality",
                founder |-> last.founder,
                experience_score |-> Q_evaluate_experience(last.founder.experience),
                education_score |-> Q_evaluate_education(last.founder.education),
                honors_score |-> Q_evaluate_honors(last.founder),
                network_score |-> Q_evaluate_network(last.founder),
                founder_score |-> Q_calculate_founder_quality(last.founder)]
    /\ UNCHANGED <<portfolio_cache, first_return, fit_calculator, now, encoder>>
    /\ UNCHANGED processor_vars

\* _calculate_team_completeness of QualityScorer
ProbeTeam ==
    /\ last.op = "call _calculate_team_completeness"
    /\ last' = [op |-> "_calculate_team_completeness",
                founders |-> last.founders,
                team_score |-> Q_calculate_team_completeness(last.founders)]
    /\ UNCHANGED <<portfolio_cache, first_return, fit_calculator, now, encoder>>
    /\ UNCHANGED processor_vars

\* _get_startup_recommendation of UnifiedVCSourcingAgent
ProbeRecommendation ==
    /\ last.op = "call _get_startup_recommendation"
    /\ last' = [op |-> "_get_startup_recommendation",
                score |-> last.score, pros |-> last.pros, cons |-> last.cons,
                recommendation |->
                    Agent_get_startup_recommendation(last.score, last.pros, last.cons)]
    /\ UNCHANGED <<portfolio_cache, first_return, fit_calculator, now, encoder>>
    /\ UNCHANGED processor_vars

\* _calculate_overall_score of both calculators, on five given sub-scores
ProbeOverall ==
    /\ last.op = "call _calculate_overall_score"
    /\ last' = [op |-> "_calculate_overall_score",
                text_similarity |-> last.text_similarity,
                industry_alignment |-> last.industry_alignment,
                stage_alignment |-> last.stage_alignment,
                geographic_alignment |-> last.geographic_alignment,
                network_proximity |-> last.network_proximity,
                base |-> Base_calculate_overall_score(
                             last.text_similarity, last.industry_alignment,
                             last.stage_alignment, last.geographic_alignment,
                             last.network_proximity),
                optimized |-> Opt_calculate_overall_score(
                                  last.text_similarity, last.industry_alignment,
                                  last.stage_alignment, last.geographic_alignment,
                                  last.network_proximity)]
    /\ UNCHANGED <<portfolio_cache, first_return, fit_calculator, now, encoder>>
    /\ UNCHANGED processor_vars

\* calculate_fit_metrics of a FitMetricCalculator whose fit_model is None or a
\* loaded regressor, _calculate_single_fit_metrics of a new
\* OptimizedFitMetricCalculator, and calculate_quality_score
ProbeFit ==
    /\ last.op = "call calculate_fit_metrics"
    /\ LET startup == last.startup
           vc == last.vc
           base == Base_calculate_fit_metrics(encoder, startup, vc)
           e == Opt_get_vc_embedding(NewCalculator, encoder, vc, now)
           opt == Opt_calculate_single_fit_metrics(e.calc, encoder, startup, vc,
                                                   e.value, now)
       IN  last' = [op |-> "calculate_fit_metrics",
                    startup |-> startup,
                    vc |-> vc,
                    fit_model |-> last.fit_model,
                    base |-> base,
                    optimized |-> [raised |-> opt.raised, metrics |-> opt.metrics],
                    quality_score |-> Q_calculate_quality_score(startup)]
    /\ UNCHANGED <<portfolio_cache, first_return, fit_calculator, now, encoder>>
    /\ UNCHANGED processor_vars

NextScore ==
    \/ ProbeStage \/ ProbeFit \/ ProbeIndustry \/ ProbeGeographic \/ ProbeQuality
    \/ ProbeOverall \/ ProbeRecommendation \/ ProbeFounder \/ ProbeTeam

SpecScore == InitScore /\ [][NextScore]_vars

(***************************************************************************)
(* src/portfolio_rag_scraper.py : FallbackPortfolioScraper                 *)
(***************************************************************************)

\* self.fallback_data, as <<key, companies>> pairs in the order of the dict
fallback_data ==
    << <<"sequoia capital",
        <<MkPortfolioCompany("WhatsApp", "Social Media", "Messaging platform"),
          MkPortfolioCompany("Airbnb", "Travel", "Home sharing platform"),
          MkPortfolioCompany("Stripe", "Fintech", "Payment processing"),
          MkPortfolioCompany("DoorDash", "Food Delivery", "Food delivery service"),
          MkPortfolioCompany("Zoom", "SaaS", "Video conferencing"),
          MkPortfolioCompany("Snowflake", "SaaS", "Cloud data platform"),
          MkPortfolioCompany("ByteDance", "Social Media", "TikTok parent company"),
          MkPortfolioCompany("Instacart", "Food Delivery", "Grocery delivery"),
          MkPortfolioCompany("Robinhood", "Fintech", "Stock trading app"),
          MkPortfolioCompany("Unity", "Gaming", "Game development platform")>> >>,
      <<"andreessen horowitz",
        <<MkPortfolioCompany("Facebook", "Social Media", "Social networking platform"),
          MkPortfolioCompany("GitHub", "SaaS", "Code hosting platform"),
          MkPortfolioCompany("Coinbase", "Fintech", "Cryptocurrency exchange"),
          MkPortfolioCompany("Lyft", "Transportation", "Ride-sharing platform"),
          MkPortfolioCompany("Slack", "SaaS", "Team collaboration platform"),
          MkPortfolioCompany("Twitter", "Social Media", "Microblogging platform"),
          MkPortfolioCompany("Pinterest", "Social Media", "Visual discovery platform"),
          MkPortfolioCompany("Box", "SaaS", "Cloud storage platform"),
          MkPortfolioCompany("Okta", "SaaS", "Identity management platform"),
          MkPortfolioCompany("Palantir", "SaaS", "Data analytics platform")>> >>,
      <<"nexus venture partners",
        <<MkPortfolioCompany("Snapdeal", "E-commerce", "Online marketplace"),
          MkPortfolioCompany("Delhivery", "Logistics", "Logistics and delivery"),
          MkPortfolioCompany("PubMatic", "Adtech", "Digital advertising platform"),
          MkPortfolioCompany("Happay", "Fintech", "Expense management platform"),
          MkPortfolioCompany("Turtlemint", "Insurtech", "Insurance platform"),
          MkPortfolioCompany("Unacademy", "Edtech", "Online learning platform"),
          MkPortfolioCompany("Razorpay", "Fintech", "Payment gateway"),
          MkPortfolioCompany("Licious", "Food Delivery", "Meat delivery platform"),
          MkPortfolioCompany("WhiteHat Jr", "Edtech", "Coding education for kids"),
          MkPortfolioCompany("Infra.Market", "B2B", "Construction materials marketplace")>> >> >>

\* str.split(): the words of s between runs of blanks
SplitWords(s) == SelectSeq(Split(s, " "), LAMBDA w : w # "")

\* the loop over fallback_data.keys() that keeps the first key of the highest
\* word-overlap score len(common_words) / max(len(..), len(..)); the running
\* best is <<key index, common words, divisor>>, index 0 while there is none
RECURSIVE Fallback_best_match(_, _, _)
Fallback_best_match(normalized_name, i, best) ==
    IF i > Len(fallback_data) THEN best
    ELSE LET key == fallback_data[i][1]
             common_words == Range(SplitWords(normalized_name)) \cap Range(SplitWords(key))
             divisor == Max(Len(SplitWords(normalized_name)), Len(SplitWords(key)))
             c == Cardinality(common_words)
         IN  Fallback_best_match(normalized_name, i + 1,
                 IF c > 0 /\ c * best[3] > best[2] * divisor
                 THEN <<i, c, divisor>> ELSE best)

\* scrape_portfolio: exact key, then the first key that contains or is
\* contained in the name, then the best word overlap above 0.3, else []
Fallback_scrape_portfolio(vc_name, max_companies) ==
    LET normalized_name == Lower(Strip(vc_name))
        keys == 1..Len(fallback_data)
        partial(i) == \/ IsSubstring(fallback_data[i][1], normalized_name)
                      \/ IsSubstring(normalized_name, fallback_data[i][1])
        best == Fallback_best_match(normalized_name, 1, <<0, 0, 1>>)
    IN  IF \E i \in keys : fallback_data[i][1] = normalized_name
        THEN Prefix(fallback_data[CHOOSE i \in keys :
                                     fallback_data[i][1] = normalized_name][2],
                    max_companies)
        ELSE IF \E i \in keys : partial(i)
        THEN Prefix(fallback_data[CHOOSE i \in keys :
                                     partial(i) /\ \A j \in 1..(i - 1) : ~partial(j)][2],
                    max_companies)
        ELSE IF best[1] # 0 /\ 10 * best[2] > 3 * best[3]
        THEN Prefix(fallback_data[best[1]][2], max_companies)
        ELSE <<>>

(***************************************************************************)
(* src/unified_vc_sourcing_agent.py : _get_portfolio_companies             *)
(* What PortfolioRAGScraper finds on the web is an input: rag is the        *)
(* outcome of its call, [raises, companies].                               *)
(***************************************************************************)

\* the firm names the agents are asked about
VcFirms == {"Andreessen Horowitz", "Acme VC"}

\* FallbackPortfolioScraper().scrape_portfolio(vc_firm, max_companies=50) for
\* each firm name, evaluated once
Fallback_scraped == [f \in VcFirms |-> Fallback_scrape_portfolio(f, 50)]

\* a variant that treats a cached empty list as a miss (if self.portfolio_cache
\* .get(vc_firm)): an empty portfolio is scraped again on every call
Agent_get_portfolio_companies_falsy_miss(cache, use_mock_data, vc_firm, rag) ==
    IF vc_firm \in DOMAIN cache /\ cache[vc_firm] # <<>>
    THEN [companies |-> cache[vc_firm], cache |-> cache,
          rag_invoked |-> FALSE, fallback_invoked |-> FALSE]
    ELSE IF ~use_mock_data /\ ~rag.raises /\ rag.companies # <<>>
    THEN [companies |-> rag.companies, cache |-> MapPut(cache, vc_firm, rag.companies),
          rag_invoked |-> TRUE, fallback_invoked |-> FALSE]
    ELSE [companies |-> Fallback_scraped[vc_firm],
          cache |-> MapPut(cache, vc_firm, Fallback_scraped[vc_firm]),
          rag_invoked |-> ~use_mock_data, fallback_invoked |-> TRUE]

\* _get_portfolio_companies on an agent whose portfolio_cache is cache: the
\* list returned, the cache afterwards, and which scrapers were invoked
Agent_get_portfolio_companies(cache, use_mock_data, vc_firm, rag) ==
    IF vc_firm \in DOMAIN cache
    THEN [companies |-> cache[vc_firm], cache |-> cache,
          rag_invoked |-> FALSE, fallback_invoked |-> FALSE]
    ELSE IF ~use_mock_data /\ ~rag.raises /\ rag.companies # <<>>
    THEN [companies |-> rag.companies, cache |-> MapPut(cache, vc_firm, rag.companies),
          rag_invoked |-> TRUE, fallback_invoked |-> FALSE]
    ELSE LET companies == Fallback_scraped[vc_firm]
         IN  [companies |-> companies, cache |-> MapPut(cache, vc_firm, companies),
              rag_invoked |-> ~use_mock_data, fallback_invoked |-> TRUE]

(***************************************************************************)
(* SpecPortfolio: two agents, one built with use_mock_data=True and one    *)
(* with use_mock_data=False, resolve portfolios and run the conflict       *)
(* detector and the portfolio-fit scorer on candidate startups.            *)
(***************************************************************************)

Agents == {"mock_agent", "live_agent"}

\* self.use_mock_data of each agent
use_mock_data == [a \in Agents |-> a = "mock_agent"]

\* what the RAG scraper may find for a firm: an exception, nothing, or a list
RagPortfolio ==
    <<MkPortfolioCompany("Plaid", "Fintech", "bank data api"),
      MkPortfolioCompany("Brex", "Fintech", ""),
      MkPortfolioCompany("Chime", "Fintech", ""),
      MkPortfolioCompany("Ramp", "Fintech", ""),
      MkPortfolioCompany("Wise", "Fintech", ""),
      MkPortfolioCompany("Affirm", "Fintech", ""),
      MkPortfolioCompany("Canva", "", "design tool")>>

RagNotCalled == [raises |-> FALSE, companies |-> <<>>]

RagOutcomes ==
    {[raises |-> TRUE, companies |-> <<>>],
     [raises |-> FALSE, companies |-> <<>>],
     [raises |-> FALSE, companies |-> RagPortfolio]}

\* the outcomes to consider for a call: the RAG scraper is reached only by an
\* agent without mock data, on a cache miss
RagOutcomesFor(a, vc_firm) ==
    IF use_mock_data[a] \/ vc_firm \in DOMAIN portfolio_cache[a]
    THEN {RagNotCalled} ELSE RagOutcomes

PortfolioStartups ==
    {MkStartup("Slackr", "team collaboration", "SaaS", NONE, NONE, 0, <<>>),
     MkStartup("Coinhub", NONE, "fintech", NONE, NONE, 0, <<>>),
     MkStartup("Quark", "", "Fintech", NONE, NONE, 0, <<>>),
     MkStartup("Canvas", "design tools", NONE, NONE, NONE, 0, <<>>),
     MkStartup("Nova", NONE, "Robotics", NONE, NONE, 0, <<>>)}

\* every portfolio list an agent can resolve here
PortfolioLists ==
    {Fallback_scraped[f] : f \in VcFirms} \cup {o.companies : o \in RagOutcomes}

\* _detect_portfolio_conflicts and _calculate_portfolio_fit for each candidate
\* and resolved list, evaluated once
DetectedConflicts ==
    [s \in PortfolioStartups |->
        [l \in PortfolioLists |-> Agent_detect_portfolio_conflicts(s, l)]]

PortfolioFits ==
    [s \in PortfolioStartups |->
        [l \in PortfolioLists |-> Agent_calculate_portfolio_fit(s, l)]]

InitPortfolio ==
    /\ portfolio_cache = [a \in Agents |-> <<>>]
    /\ first_return = [a \in Agents |-> <<>>]
    /\ fit_calculator = NewCalculator
    /\ now = 0
    /\ stored = <<>>
    /\ tasks = <<>>
    /\ semaphore = 0
    /\ frame = <<>>
    /\ encoder = NoModel
    /\ last = [op |-> "__init__"]

\* the state an agent's call of _get_portfolio_companies leaves, r being what
\* the call returned; first_return keeps the list of the first call per firm
PortfolioResolved(a, vc_firm, r) ==
    /\ portfolio_cache' = [portfolio_cache EXCEPT ![a] = r.cache]
    /\ first_return' =
           IF vc_firm \in DOMAIN first_return[a] THEN first_return
           ELSE [first_return EXCEPT ![a] = MapPut(@, vc_firm, r.companies)]
    /\ UNCHANGED <<fit_calculator, now, encoder>>
    /\ UNCHANGED processor_vars

\* await agent._get_portfolio_companies(vc_firm)
GetPortfolioCompanies ==
    \E a \in Agents, vc_firm \in VcFirms :
      \E rag \in RagOutcomesFor(a, vc_firm) :
        LET r == Agent_get_portfolio_companies(portfolio_cache[a], use_mock_data[a],
                                               vc_firm, rag)
        IN  /\ PortfolioResolved(a, vc_firm, r)
            /\ last' = [op |-> "_get_portfolio_companies", agent |-> a,
                        vc_firm |-> vc_firm,
                        returned_before |-> vc_firm \in DOMAIN first_return[a],
                        companies |-> r.companies,
                        rag_invoked |-> r.rag_invoked,
                        fallback_invoked |-> r.fallback_invoked]

\* await agent._detect_portfolio_conflicts(startup, vc_firm)
DetectPortfolioConflicts ==
    \E a \in Agents, vc_firm \in VcFirms, startup \in PortfolioStartups :
      \E rag \in RagOutcomesFor(a, vc_firm) :
        LET r == Agent_get_portfolio_companies(portfolio_cache[a], use_mock_data[a],
                                               vc_firm, rag)
        IN  /\ PortfolioResolved(a, vc_firm, r)
            /\ last' = [op |-> "_detect_portfolio_conflicts", agent |-> a,
                        vc_firm |-> vc_firm,
                        returned_before |-> vc_firm \in DOMAIN first_return[a],
                        companies |-> r.companies,
                        rag_invoked |-> r.rag_invoked,
                        fallback_invoked |-> r.fallback_invoked,
                        startup |-> startup,
                        conflicts |-> DetectedConflicts[startup][r.companies]]

\* await agent._calculate_portfolio_fit(startup, vc_firm)
CalculatePortfolioFit ==
    \E a \in Agents, vc_firm \in VcFirms, startup \in PortfolioStartups :
      \E rag \in RagOutcomesFor(a, vc_firm) :
        LET r == Agent_get_portfolio_companies(portfolio_cache[a], use_mock_data[a],
                                               vc_firm, rag)
        IN  /\ PortfolioResolved(a, vc_firm, r)
            /\ last' = [op |-> "_calculate_portfolio_fit", agent |-> a,
                        vc_firm |-> vc_firm,
                        returned_before |-> vc_firm \in DOMAIN first_return[a],
                        companies |-> r.companies,
                        rag_invoked |-> r.rag_invoked,
                        fallback_invoked |-> r.fallback_invoked,
                        startup |-> startup,
                        portfolio_fit |-> PortfolioFits[startup][r.companies]]

NextPortfolio == GetPortfolioCompanies \/ DetectPortfolioConflicts \/ CalculatePortfolioFit

SpecPortfolio == InitPortfolio /\ [][NextPortfolio]_vars

(***************************************************************************)
(* SpecCalc: one OptimizedFitMetricCalculator serves a sequence of          *)
(* calculate_fit_metrics_batch calls, with clear_cache calls in between.    *)
(* A call is recorded when the caller makes it and again when it returns;   *)
(* next to what it returns, the record keeps what the same call returns on  *)
(* the calculator with its caches cleared.                                  *)
(***************************************************************************)

\* the longest startup list handed to one batch call
MaxBatch == 2

CalcStartups ==
    {MkStartup("PayFlow", "payments app", "Fintech", "San Francisco, CA", "Seed", 2022,
               <<Founder_Ada>>),
     MkStartup("Medix", "health app", "healthtech", "Boston", "series-b", 2010,
               <<Founder_Bo, Founder_Cy>>),
     MkStartup("Koala", "", "AI/ML", "austin, tx", "growth", 2030,
               <<Founder_Ada, Founder_Bo>>)}

\* the first two profiles share the name "Accel" and differ in their thesis
CalcVCs ==
    {MkVC("Accel", "seed software", <<"AI/ML", "Fintech">>, <<"Seed", "Series A">>,
          <<"San Francisco">>, <<"Slack">>),
     MkVC("Accel", "early software", <<"AI/ML", "Fintech">>, <<"Seed", "Series A">>,
          <<"San Francisco">>, <<"Slack">>),
     MkVC("Greylock", NONE, <<"Healthcare", "payments">>, <<"growth">>,
          <<"Cambridge", "TX">>, <<>>)}

InitCalc ==
    /\ portfolio_cache = [a \in Agents |-> <<>>]
    /\ first_return = [a \in Agents |-> <<>>]
    /\ fit_calculator = NewCalculator
    /\ now = 0
    /\ stored = <<>>
    /\ tasks = <<>>
    /\ semaphore = 0
    /\ frame = <<>>
    /\ encoder \in EmbeddingModels
    /\ last = [op |-> "__init__"]

\* no call of the calculator is under way
CalcIdle == last.op \in {"__init__", "idle", "clear_cache"}

\* a caller hands a startup list and a VC profile to calculate_fit_metrics_batch
CallCalculateFitMetricsBatch ==
    /\ CalcIdle
    /\ \E startups \in SeqsUpTo(CalcStartups, MaxBatch), vc \in CalcVCs :
          last' = [op |-> "call calculate_fit_metrics_batch",
                   startups |-> startups, vc |-> vc]
    /\ UNCHANGED <<portfolio_cache, first_return, fit_calculator, now, encoder>>
    /\ UNCHANGED processor_vars

\* calculate_fit_metrics_batch runs and returns
CalculateFitMetricsBatch ==
    /\ last.op = "call calculate_fit_metrics_batch"
    /\ \E r \in {Opt_calculate_fit_metrics_batch(fit_calculator, encoder,
                                                   last.startups, last.vc, now)},
          cleared \in {Opt_calculate_fit_metrics_batch(Opt_clear_cache(fit_calculator),
                                                       encoder, last.startups, last.vc,
                                                       now)} :
           /\ fit_calculator' = r.calc
           /\ last' = [op |-> "calculate_fit_metrics_batch",
                       startups |-> last.startups, vc |-> last.vc,
                       vc_embedding_cached |->
                           Opt_vc_key(last.vc) \in DOMAIN fit_calculator.vc_embeddings,
                       results |-> r.results,
                       cleared_results |-> cleared.results]
    /\ UNCHANGED <<portfolio_cache, first_return, now, encoder>>
    /\ UNCHANGED processor_vars

\* calculator.clear_cache()
ClearCache ==
    /\ CalcIdle
    /\ fit_calculator' = Opt_clear_cache(fit_calculator)
    /\ last' = [op |-> "clear_cache"]
    /\ UNCHANGED <<portfolio_cache, first_return, now, encoder>>
    /\ UNCHANGED processor_vars

\* the caller takes the list of FitMetrics; the calculator is free for the next call
TakeMetrics ==
    /\ last.op = "calculate_fit_metrics_batch"
    /\ last' = [op |-> "idle"]
    /\ UNCHANGED <<portfolio_cache, first_return, fit_calculator, now, encoder>>
    /\ UNCHANGED processor_vars

NextCalc ==
    CallCalculateFitMetricsBatch \/ CalculateFitMetricsBatch \/ TakeMetrics \/ ClearCache

SpecCalc == InitCalc /\ [][NextCalc]_vars

(***************************************************************************)
(* src/scrapers/vc_profile_scraper.py : VCProfileScraper                   *)
(***************************************************************************)

\* _normalize_firm_name, for the names that reach it here
Scraper_normalize_firm_name(firm_name) ==
    LET name_lower == Lower(Strip(firm_name))
    IN  IF name_lower \in {"andreessen horowitz", "a16z"} THEN "a16z" ELSE name_lower

\* self.mock_vc_profiles["a16z"]
Profile_a16z ==
    MkVC("Andreessen Horowitz (a16z)",
         "We invest in software companies that are building the future. We focus on early-stage companies with strong technical founders and innovative products.",
         <<"Software", "AI/ML", "Fintech", "Healthcare", "Enterprise", "Consumer">>,
         <<"Seed", "Series A", "Series B", "Series C">>,
         <<"San Francisco", "New York", "London", "Tel Aviv">>,
         <<"Airbnb", "Coinbase", "GitHub", "Lyft", "Pinterest", "Slack">>)

\* _create_generic_profile
Scraper_create_generic_profile(firm_name) ==
    MkVC(firm_name,
         firm_name \o " invests in early-stage companies with strong potential for growth and market disruption.",
         <<"Technology", "Software", "AI/ML", "Fintech", "Healthcare">>,
         <<"Seed", "Series A", "Series B">>,
         <<"San Francisco", "New York", "London">>,
         <<"Example Company 1", "Example Company 2", "Example Company 3">>)

\* scrape_vc_profile on the profile table as __init__ builds it
Scraper_scrape_vc_profile(vc_firm_name) ==
    IF Scraper_normalize_firm_name(vc_firm_name) = "a16z" THEN Profile_a16z
    ELSE Scraper_create_generic_profile(vc_firm_name)

(***************************************************************************)
(* src/unified_vc_sourcing_agent.py : talent sourcing, on an agent built   *)
(* with use_mock_data=True                                                  *)
(***************************************************************************)

\* _search_people_mock: min(max_results, 6) people
Linkedin_search_people_mock(keyword, max_results) ==
    LET titles == <<"CEO", "CTO", "Founder", "VP Engineering", "Head of Product",
                    "Senior Engineer">>
        names == <<"Alex Johnson", "Sarah Chen", "Michael Rodriguez", "Priya Patel",
                   "David Kim", "Emily Watson">>
    IN  [i \in 1..Max(0, Min(max_results, 6)) |-> [name |-> names[i], title |-> titles[i]]]

\* the keywords _find_talent_for_company builds for a portfolio company
Agent_talent_keywords(company) ==
    <<company.name, company.industry>>
    \o (IF Truthy(company.description)
        THEN Prefix(SplitWords(company.description), 5) ELSE <<>>)

\* _search_linkedin_talent
RECURSIVE Agent_linkedin_loop(_, _, _, _)
Agent_linkedin_loop(company, keywords, per_keyword, talent_results) ==
    IF keywords = <<>> THEN talent_results
    ELSE LET profiles == Linkedin_search_people_mock(Head(keywords), per_keyword)
         IN  Agent_linkedin_loop(company, Tail(keywords), per_keyword,
                 talent_results \o
                 [i \in 1..Len(profiles) |->
                     [name |-> profiles[i].name, title |-> profiles[i].title,
                      company |-> company.name, platform |-> "linkedin",
                      match_score |-> 5000]])

Agent_search_linkedin_talent(company, keywords, max_results) ==
    Prefix(Agent_linkedin_loop(company, keywords, max_results \div Len(keywords), <<>>),
           max_results)

\* _search_crunchbase_talent
Agent_search_crunchbase_talent(company, keywords, max_results) ==
    LET mock_titles == <<"CEO", "CTO", "CFO", "VP Engineering", "Head of Product">>
        mock_names == <<"Alex Johnson", "Sarah Chen", "Michael Rodriguez", "Priya Patel",
                        "David Kim">>
    IN  [i \in 1..Max(0, Min(max_results, 5)) |->
            [name |-> mock_names[i], title |-> mock_titles[i],
             company |-> company.name, platform |-> "crunchbase",
             match_score |-> 6000]]

\* _search_twitter_talent
Agent_search_twitter_talent(company, keywords, max_results) ==
    LET mock_titles == <<"Founder", "CEO", "Tech Lead", "Product Manager">>
        mock_names == <<"@techfounder", "@startupceo", "@productguru", "@techleader">>
    IN  [i \in 1..Max(0, Min(max_results, 4)) |->
            [name |-> mock_names[i], title |-> mock_titles[i],
             company |-> company.name, platform |-> "twitter",
             match_score |-> 4000]]

\* _find_talent_for_company: a platform it does not know is passed over
RECURSIVE Agent_platform_loop(_, _, _, _, _)
Agent_platform_loop(company, keywords, per_platform, platforms, talent_results) ==
    IF platforms = <<>> THEN talent_results
    ELSE LET platform == Head(platforms)
             platform_talent ==
                 CASE platform = "linkedin" ->
                          Agent_search_linkedin_talent(company, keywords, per_platform)
                   [] platform = "crunchbase" ->
                          Agent_search_crunchbase_talent(company, keywords, per_platform)
                   [] platform = "twitter" ->
                          Agent_search_twitter_talent(company, keywords, per_platform)
                   [] OTHER -> <<>>
         IN  Agent_platform_loop(company, keywords, per_platform, Tail(platforms),
                                 talent_results \o platform_talent)

Agent_find_talent_for_company(company, max_talent, platforms) ==
    IF platforms = <<>> THEN <<>>
    ELSE Agent_platform_loop(company, Agent_talent_keywords(company),
                             max_talent \div Len(platforms), platforms, <<>>)

\* the loop of source_talent_for_portfolio over the portfolio companies
RECURSIVE Agent_talent_loop(_, _, _, _)
Agent_talent_loop(portfolio_companies, max_talent, platforms, all_talent_results) ==
    IF portfolio_companies = <<>> THEN all_talent_results
    ELSE Agent_talent_loop(Tail(portfolio_companies), max_talent, platforms,
             all_talent_results
             \o Agent_find_talent_for_company(Head(portfolio_companies),
                                              max_talent, platforms))

\* steps 2 and 3 of source_talent_for_portfolio
Agent_all_talent(portfolio_companies, max_talent, platforms) ==
    SortDescending(Agent_talent_loop(portfolio_companies, max_talent, platforms, <<>>),
                   LAMBDA talent : talent.match_score)

(***************************************************************************)
(* src/unified_vc_sourcing_agent.py : source_startups_for_vc and           *)
(* source_talent_for_portfolio                                             *)
(***************************************************************************)

\* the agent whose requests Spec follows, built by UnifiedVCSourcingAgent()
SourcingAgent == "mock_agent"

\* what self.vc_scraper.scrape_vc_profile(vc_firm) hands back: nothing, the
\* profile of the table as __init__ builds it, or a profile registered through
\* add_vc_profile that names no focus areas
VcProfileOutcomes(vc_firm) ==
    {[resolved |-> FALSE, profile |-> MkVC(NONE, NONE, <<>>, <<>>, <<>>, <<>>)],
     [resolved |-> TRUE, profile |-> Scraper_scrape_vc_profile(vc_firm)],
     [resolved |-> TRUE,
      profile |-> MkVC(vc_firm, "Generalist fund", <<>>, <<"Seed">>, <<>>, <<>>)]}

\* the startups the LinkedIn search may come back with; the second and the
\* third differ in the case and the blanks of their name only
SourcingStartups ==
    {MkStartup("Slackr", "team collaboration", "SaaS", "San Francisco, CA", "Seed", 2022,
               <<Founder_Ada>>),
     MkStartup("SLACKR ", "chat", "SaaS", NONE, NONE, 0, <<>>),
     MkStartup("Coinhub", "crypto wallet", "fintech", "Austin, TX", "series-a", 2020,
               <<Founder_Bo, Founder_Cy>>),
     MkStartup("Nova", NONE, "Robotics", "Boston", "growth", 2015, <<Founder_Ada, Founder_Bo>>)}

\* what the searches of one request return together, in the order found
FoundLists ==
    LET Found_Slackr == CHOOSE s \in SourcingStartups : s.name = "Slackr"
        Found_SlackrAgain == CHOOSE s \in SourcingStartups : s.name = "SLACKR "
        Found_Coinhub == CHOOSE s \in SourcingStartups : s.name = "Coinhub"
        Found_Nova == CHOOSE s \in SourcingStartups : s.name = "Nova"
    IN  {<<>>,
         <<Found_Slackr>>,
         <<Found_Slackr, Found_SlackrAgain>>,
         <<Found_SlackrAgain, Found_Coinhub, Found_Slackr>>,
         <<Found_Nova, Found_Coinhub>>,
         <<Found_Coinhub, Found_Nova, Found_Slackr>>,
         <<Found_Nova>>}

\* the portfolio lists the agent can resolve
SourcingLists == {Fallback_scraped[f] : f \in VcFirms}

\* calculate_quality_score, _detect_portfolio_conflicts and
\* _calculate_portfolio_fit for each startup and list, evaluated once
SourcingQuality == [s \in SourcingStartups |-> Q_calculate_quality_score(s)]

SourcingConflicts ==
    [s \in SourcingStartups |->
        [l \in SourcingLists |-> Agent_detect_portfolio_conflicts(s, l)]]

SourcingFits ==
    [s \in SourcingStartups |->
        [l \in SourcingLists |-> Agent_calculate_portfolio_fit(s, l)]]

\* steps 6 and 7 of source_startups_for_vc: every unique startup gets its
\* quality_score, portfolio_conflicts and portfolio_fit; the two portfolio
\* helpers resolve the firm's portfolio through _get_portfolio_companies
RECURSIVE Agent_assess_loop(_, _, _, _, _)
Agent_assess_loop(cache, mock, vc_firm, startups, assessed) ==
    IF startups = <<>> THEN [startups |-> assessed, cache |-> cache]
    ELSE WithValue(Agent_get_portfolio_companies(cache, mock, vc_firm, RagNotCalled),
           LAMBDA c :
             WithValue(Agent_get_portfolio_companies(c.cache, mock, vc_firm, RagNotCalled),
               LAMBDA f :
                 Agent_assess_loop(f.cache, mock, vc_firm, Tail(startups),
                     Append(assessed,
                            Head(startups)
                            @@ [quality_score |-> SourcingQuality[Head(startups)],
                                portfolio_conflicts |->
                                    SourcingConflicts[Head(startups)][c.companies],
                                portfolio_fit |->
                                    SourcingFits[Head(startups)][f.companies]]))))

\* _get_portfolio_summary(vc_firm)["companies"] of an agent with mock data
Agent_portfolio_summary_companies(vc_firm) ==
    [i \in 1..Len(Fallback_scraped[vc_firm]) |-> Fallback_scraped[vc_firm][i].name]

\* source_startups_for_vc, given what the VC scraper and the startup searches
\* return: whether it raises and with what, the SourcingResult fields, the
\* intermediate lists, and the portfolio cache and the calculator afterwards
Agent_source_startups_for_vc(cache, calc, model, mock, vc_firm, scraped, found, time) ==
    LET failed(error) ==
            [raised |-> TRUE, error |-> error, portfolio_companies |-> <<>>,
             results |-> <<>>, unique_startups |-> <<>>, fit_metrics |-> <<>>,
             cache |-> cache, calc |-> calc]
    IN  IF ~scraped.resolved
        THEN failed("ValueError: Could not find VC profile for " \o vc_firm)
        ELSE IF Agent_generate_search_keywords(scraped.profile) = {}
        THEN failed("ZeroDivisionError: integer division or modulo by zero")
        ELSE WithValue(Agent_remove_duplicates(found),
               LAMBDA unique_startups :
                 WithValue(<<Opt_calculate_fit_metrics_batch(
                                 calc, model, unique_startups, scraped.profile, time),
                             Agent_assess_loop(cache, mock, vc_firm, unique_startups, <<>>)>>,
                   LAMBDA done :
                     [raised |-> FALSE, error |-> "",
                      portfolio_companies |-> Agent_portfolio_summary_companies(vc_firm),
                      results |-> Agent_create_startup_analysis(done[1].results,
                                                                done[2].startups),
                      unique_startups |-> unique_startups,
                      fit_metrics |-> done[1].results,
                      cache |-> done[2].cache, calc |-> done[1].calc]))

\* the requests for talent: max_talent_per_company and platforms (the default
\* list, a list with a platform the agent does not know, and the empty list)
MaxTalentChoices == {10, 18}
PlatformChoices == {<<"linkedin", "crunchbase", "twitter">>, <<"twitter", "github">>, <<>>}

\* steps 2 and 3 of source_talent_for_portfolio for every list and request,
\* evaluated once
TalentFound ==
    [l \in SourcingLists |->
        [m \in MaxTalentChoices |->
            [p \in PlatformChoices |-> Agent_all_talent(l, m, p)]]]

\* source_talent_for_portfolio
Agent_source_talent_for_portfolio(cache, mock, vc_firm, max_talent_per_company, platforms) ==
    LET r == Agent_get_portfolio_companies(cache, mock, vc_firm, RagNotCalled)
    IN  IF r.companies = <<>>
        THEN [raised |-> TRUE,
              error |-> "ValueError: No portfolio companies found for " \o vc_firm,
              portfolio_companies |-> <<>>, results |-> <<>>, cache |-> r.cache]
        ELSE [raised |-> FALSE, error |-> "",
              portfolio_companies |-> [i \in 1..Len(r.companies) |-> r.companies[i].name],
              results |-> TalentFound[r.companies][max_talent_per_company][platforms],
              cache |-> r.cache]

(***************************************************************************)
(* Spec: one agent serves requests for startups and for talent, one at a   *)
(* time; a request is recorded when it is made, with what the scrapers     *)
(* will return to it, and again when it returns or raises.                 *)
(***************************************************************************)

Init ==
    /\ portfolio_cache = [a \in Agents |-> <<>>]
    /\ first_return = [a \in Agents |-> <<>>]
    /\ fit_calculator = NewCalculator
    /\ now = 0
    /\ stored = <<>>
    /\ tasks = <<>>
    /\ semaphore = 0
    /\ frame = <<>>
    /\ encoder \in EmbeddingModels
    /\ last = [op |-> "__init__"]

\* no request is under way and none is waiting to be taken
AgentIdle == last.op \in {"__init__", "idle"}

\* the first list _get_portfolio_companies returned for the firm, once the
\* request has resolved the portfolio
FirstReturned(vc_firm, cache) ==
    IF vc_firm \in DOMAIN first_return[SourcingAgent] \/ vc_firm \notin DOMAIN cache
    THEN first_return
    ELSE [first_return EXCEPT ![SourcingAgent] = MapPut(@, vc_firm, cache[vc_firm])]

\* await agent.source_startups_for_vc(vc_firm) is called; the searches are
\* reached only with a profile that yields keywords
CallSourceStartupsForVc ==
    /\ AgentIdle
    /\ \E vc_firm \in VcFirms :
         \E scraped \in VcProfileOutcomes(vc_firm) :
           \E found \in IF scraped.resolved /\ Agent_generate_search_keywords(scraped.profile) # {}
                        THEN FoundLists ELSE {<<>>} :
              last' = [op |-> "call source_startups_for_vc", vc_firm |-> vc_firm,
                       scraped |-> scraped, found |-> found]
    /\ UNCHANGED <<portfolio_cache, first_return, fit_calculator, now, encoder>>
    /\ UNCHANGED processor_vars

\* source_startups_for_vc runs to its return or its raise
SourceStartupsForVc ==
    /\ last.op = "call source_startups_for_vc"
    /\ \E r \in {Agent_source_startups_for_vc(
                    portfolio_cache[SourcingAgent], fit_calculator, encoder,
                    use_mock_data[SourcingAgent], last.vc_firm, last.scraped,
                    last.found, now)} :
           /\ portfolio_cache' = [portfolio_cache EXCEPT ![SourcingAgent] = r.cache]
           /\ first_return' = FirstReturned(last.vc_firm, r.cache)
           /\ fit_calculator' = r.calc
           /\ last' = [op |-> "source_startups_for_vc", vc_firm |-> last.vc_firm,
                       scraped |-> last.scraped, found |-> last.found,
                       raised |-> r.raised, error |-> r.error,
                       portfolio_companies |-> r.portfolio_companies,
                       results |-> r.results,
                       unique_startups |-> r.unique_startups,
                       fit_metrics |-> r.fit_metrics]
    /\ UNCHANGED <<now, encoder>>
    /\ UNCHANGED processor_vars

\* await agent.source_talent_for_portfolio(vc_firm, max_talent_per_company,
\* platforms) is called
CallSourceTalentForPortfolio ==
    /\ AgentIdle
    /\ \E vc_firm \in VcFirms, m \in MaxTalentChoices, p \in PlatformChoices :
          last' = [op |-> "call source_talent_for_portfolio", vc_firm |-> vc_firm,
                   max_talent_per_company |-> m, platforms |-> p]
    /\ UNCHANGED <<portfolio_cache, first_return, fit_calculator, now, encoder>>
    /\ UNCHANGED processor_vars

\* source_talent_for_portfolio runs to its return or its raise
SourceTalentForPortfolio ==
    /\ last.op = "call source_talent_for_portfolio"
    /\ \E r \in {Agent_source_talent_for_portfolio(
                    portfolio_cache[SourcingAgent], use_mock_data[SourcingAgent],
                    last.vc_firm, last.max_talent_per_company, last.platforms)} :
           /\ portfolio_cache' = [portfolio_cache EXCEPT ![SourcingAgent] = r.cache]
           /\ first_return' = FirstReturned(last.vc_firm, r.cache)
           /\ last' = [op |-> "source_talent_for_portfolio", vc_firm |-> last.vc_firm,
                       max_talent_per_company |-> last.max_talent_per_company,
                       platforms |-> last.platforms,
                       raised |-> r.raised, error |-> r.error,
                       portfolio_companies |-> r.portfolio_companies,
                       results |-> r.results]
    /\ UNCHANGED <<fit_calculator, now, encoder>>
    /\ UNCHANGED processor_vars

\* the caller takes the SourcingResult, or handles the exception; the agent is
\* free for the next request
TakeResult ==
    /\ last.op \in {"source_startups_for_vc", "source_talent_for_portfolio"}
    /\ last' = [op |-> "idle"]
    /\ UNCHANGED <<portfolio_cache, first_return, fit_calculator, now, encoder>>
    /\ UNCHANGED processor_vars

Next ==
    \/ CallSourceStartupsForVc
    \/ SourceStartupsForVc
    \/ CallSourceTalentForPortfolio
    \/ SourceTalentForPortfolio
    \/ TakeResult

Spec == Init /\ [][Next]_vars

(***************************************************************************)
(* SpecCache: the CachingProcessor of a calculator, src/utils/              *)
(* parallel_processor.py, called directly while time passes.  `stored`      *)
(* remembers, for each key, the latest cache_result call since the last     *)
(* clear_cache.                                                             *)
(***************************************************************************)

\* the number of cache_ttl periods the clock runs through
MaxPeriods == 2

\* the instants at which time.time() is read: each multiple of cache_ttl, the
\* second before it and the second after it
ClockValues ==
    {t \in {k * cache_ttl + d : k \in 0..MaxPeriods, d \in {-1, 0, 1}} :
        t >= 0 /\ t <= MaxPeriods * cache_ttl}

CacheKeys == {"k1", "k2"}
CacheResults == {"r1", "r2"}

InitCache ==
    /\ portfolio_cache = <<>>
    /\ first_return = <<>>
    /\ fit_calculator = NewCalculator
    /\ now = 0
    /\ encoder = NoModel
    /\ last = [op |-> "__init__"]
    /\ stored = <<>>
    /\ tasks = <<>>
    /\ semaphore = 0
    /\ frame = <<>>

\* time passes
Tick ==
    /\ \E t \in ClockValues : t > now /\ now' = t
    /\ UNCHANGED <<portfolio_cache, first_return, fit_calculator, encoder, last>>
    /\ UNCHANGED processor_vars

\* cache_processor.get_cached_result(key)
GetCachedResult ==
    /\ \E key \in CacheKeys :
       \E got \in {Cp_get_cached_result(fit_calculator.cp_cache, key, now)} :
           /\ fit_calculator' = [fit_calculator EXCEPT !.cp_cache = got.cache]
           /\ last' = [op |-> "get_cached_result", key |-> key, time |-> now,
                       returned |-> IF got.hit THEN got.result ELSE NONE]
    /\ UNCHANGED <<portfolio_cache, first_return, now, encoder>>
    /\ UNCHANGED processor_vars

\* cache_processor.cache_result(key, result)
CacheResult ==
    /\ \E key \in CacheKeys, result \in CacheResults :
           /\ fit_calculator' =
                  [fit_calculator EXCEPT
                      !.cp_cache = Cp_cache_result(fit_calculator.cp_cache, key, result, now)]
           /\ last' = [op |-> "cache_result", key |-> key, time |-> now,
                       result |-> result]
           /\ stored' = MapPut(stored, key, [result |-> result, timestamp |-> now])
    /\ UNCHANGED <<portfolio_cache, first_return, now, encoder, tasks, semaphore, frame>>

\* cache_processor.clear_cache()
ClearProcessorCache ==
    /\ fit_calculator' = [fit_calculator EXCEPT !.cp_cache = Cp_clear_cache(fit_calculator.cp_cache)]
    /\ last' = [op |-> "clear_cache", time |-> now]
    /\ stored' = <<>>
    /\ UNCHANGED <<portfolio_cache, first_return, now, encoder, tasks, semaphore, frame>>

NextCache == Tick \/ GetCachedResult \/ CacheResult \/ ClearProcessorCache

SpecCache == InitCache /\ [][NextCache]_vars

(***************************************************************************)
(* src/utils/parallel_processor.py : ParallelProcessor                     *)
(* processor_func is the caller's: what it does with an item is the item's *)
(* kind, drawn with the call.                                              *)
(***************************************************************************)

\* what processor_func does with an item: return a truthy value, return a
\* falsy one, return an exception object, raise an Exception, or raise
\* asyncio.CancelledError, which is a BaseException and not an Exception
ItemKinds == {"value", "falsy", "returns KeyError", "raises ValueError", "raises CancelledError"}

\* an item of this kind makes processor_func raise
Raises(kind) == kind \in {"raises ValueError", "raises CancelledError"}

\* what gather(..., return_exceptions=True) holds for item i: the value
\* returned or the exception raised, as <<class, item>>
GatherResult(kind, i) ==
    IF kind = "value" THEN <<"str", i>>
    ELSE IF kind = "falsy" THEN <<"int", 0>>
    ELSE IF kind = "returns KeyError" THEN <<"KeyError", i>>
    ELSE IF kind = "raises ValueError" THEN <<"ValueError", i>>
    ELSE <<"CancelledError", i>>

\* isinstance(r, Exception)
IsException(r) == r[1] \in {"KeyError", "ValueError"}

\* valid_results = [r for r in results if not isinstance(r, Exception)]
Sem_valid_results(results) == SelectSeq(results, LAMBDA r : ~IsException(r))

(***************************************************************************)
(* SpecSemaphore: one call of process_with_semaphore.  The initial state   *)
(* is the call with its tasks created by gather; a task starts, waits for  *)
(* the semaphore when it is taken, runs processor_func, and finishes.      *)
(***************************************************************************)

\* the longest items list of a call
MaxItems == 3

\* the largest max_concurrent of a call
MaxConcurrent == 2

InitSemaphore ==
    /\ portfolio_cache = <<>>
    /\ first_return = <<>>
    /\ fit_calculator = NewCalculator
    /\ now = 0
    /\ encoder = NoModel
    /\ stored = <<>>
    /\ \E items \in SeqsUpTo(ItemKinds, MaxItems), max_concurrent \in 1..MaxConcurrent :
           /\ last = [op |-> "call process_with_semaphore", items |-> items,
                      max_concurrent |-> max_concurrent]
           /\ tasks = [i \in 1..Len(items) |-> "created"]
           /\ semaphore = max_concurrent
           /\ frame = [results |-> [i \in 1..Len(items) |-> NONE]]

\* the tasks waiting in semaphore.acquire(), and those running processor_func
Waiting == {i \in DOMAIN tasks : tasks[i] = "waiting"}
InProgress == {i \in DOMAIN tasks : tasks[i] = "running"}

\* process_item reaches `async with semaphore`: the event loop starts the tasks
\* in the order gather created them; acquire() takes the semaphore when it is
\* free and nobody waits, else the task joins the waiters
StartTask ==
    /\ last.op = "call process_with_semaphore"
    /\ \E i \in DOMAIN tasks :
           /\ tasks[i] = "created"
           /\ \A j \in 1..(i - 1) : tasks[j] # "created"
           /\ IF semaphore > 0 /\ Waiting = {}
              THEN /\ tasks' = [tasks EXCEPT ![i] = "running"]
                   /\ semaphore' = semaphore - 1
              ELSE /\ tasks' = [tasks EXCEPT ![i] = "waiting"]
                   /\ UNCHANGED semaphore
    /\ UNCHANGED <<portfolio_cache, first_return, fit_calculator, now, encoder, last,
                   stored, frame>>

\* release() has woken the first waiter: it takes the semaphore
WakeTask ==
    /\ last.op = "call process_with_semaphore"
    /\ semaphore > 0
    /\ \E i \in Waiting :
           /\ \A j \in Waiting : i <= j
           /\ tasks' = [tasks EXCEPT ![i] = "running"]
           /\ semaphore' = semaphore - 1
    /\ UNCHANGED <<portfolio_cache, first_return, fit_calculator, now, encoder, last,
                   stored, frame>>

\* processor_func(item) returns or raises: the semaphore is released and
\* gather keeps the value or the exception at the item's place
FinishTask ==
    /\ last.op = "call process_with_semaphore"
    /\ \E i \in InProgress :
           /\ tasks' = [tasks EXCEPT ![i] = "done"]
           /\ semaphore' = semaphore + 1
           /\ frame' = [frame EXCEPT !.results[i] = GatherResult(last.items[i], i)]
    /\ UNCHANGED <<portfolio_cache, first_return, fit_calculator, now, encoder, last,
                   stored>>

\* gather is done: the exceptions are filtered out and the list is returned
ReturnValidResults ==
    /\ last.op = "call process_with_semaphore"
    /\ \A i \in DOMAIN tasks : tasks[i] = "done"
    /\ last' = [op |-> "process_with_semaphore", items |-> last.items,
                max_concurrent |-> last.max_concurrent,
                returned |-> Sem_valid_results(frame.results)]
    /\ UNCHANGED <<portfolio_cache, first_return, fit_calculator, now, encoder,
                   stored, tasks, semaphore, frame>>

NextSemaphore == StartTask \/ WakeTask \/ FinishTask \/ ReturnValidResults

SpecSemaphore == InitSemaphore /\ [][NextSemaphore]_vars

\* the event loop runs every task that can run, and every processor_func
\* call ends
FairSemaphore == SpecSemaphore /\ WF_vars(NextSemaphore)

(***************************************************************************)
(* SpecBatch: one call of process_batch on a ParallelProcessor with        *)
(* max_workers threads.  A future is "pending" once submitted, "running"   *)
(* while a worker thread runs processor_func, "done" when it has its       *)
(* result or exception, and "collected" once as_completed has yielded it.  *)
(* frame holds the locals i, batch_results and results and the place of    *)
(* the call: submitting the batch or collecting it.                        *)
(***************************************************************************)

\* the largest batch_size of a call
MaxBatchSize == 2

\* the largest max_workers of the executor
MaxWorkers == 2

\* what processor_func does with an item in a worker thread: the kinds above
\* but for the cancellation, which belongs to coroutines
BatchItemKinds == ItemKinds \ {"raises CancelledError"}

\* items[i:i + batch_size], as the set of its positions (i counts from 0)
Batch_positions(items, i, batch_size) == {p \in 1..Len(items) : p > i /\ p <= i + batch_size}

\* a variant that keeps every result that was not raised, falsy or not
Batch_append_result_any(batch_results, kind, p) ==
    IF Raises(kind) THEN batch_results
    ELSE Append(batch_results, GatherResult(kind, p))

\* the body of the as_completed loop for one future: future.result() raises
\* what processor_func raised, which is logged, and a result is appended
\* when it is truthy
Batch_append_result(batch_results, kind, p) ==
    IF Raises(kind) \/ kind = "falsy" THEN batch_results
    ELSE Append(batch_results, GatherResult(kind, p))

InitBatch ==
    /\ portfolio_cache = <<>>
    /\ first_return = <<>>
    /\ fit_calculator = NewCalculator
    /\ now = 0
    /\ encoder = NoModel
    /\ stored = <<>>
    /\ semaphore = 0
    /\ \E items \in SeqsUpTo(BatchItemKinds, MaxItems), batch_size \in 1..MaxBatchSize,
          max_workers \in 1..MaxWorkers :
           /\ last = [op |-> "call process_batch", items |-> items,
                      batch_size |-> batch_size, max_workers |-> max_workers]
           /\ tasks = [p \in 1..Len(items) |-> "unsubmitted"]
           /\ frame = [pc |-> "submit", i |-> 0, batch_results |-> <<>>, results |-> <<>>]

\* the positions of the batch the call is at
CurrentBatch == Batch_positions(last.items, frame.i, last.batch_size)

\* future = self.executor.submit(processor_func, item), item after item
SubmitItem ==
    /\ last.op = "call process_batch"
    /\ frame.pc = "submit"
    /\ \E p \in CurrentBatch :
           /\ tasks[p] = "unsubmitted"
           /\ \A q \in CurrentBatch : q < p => tasks[q] # "unsubmitted"
           /\ tasks' = [tasks EXCEPT ![p] = "pending"]
    /\ UNCHANGED <<portfolio_cache, first_return, fit_calculator, now, encoder, last,
                   stored, semaphore, frame>>

\* the last item of the batch is submitted: batch_results = [] and the
\* as_completed loop begins
BeginCollect ==
    /\ last.op = "call process_batch"
    /\ frame.pc = "submit"
    /\ CurrentBatch # {}
    /\ \A p \in CurrentBatch : tasks[p] # "unsubmitted"
    /\ frame' = [frame EXCEPT !.pc = "collect", !.batch_results = <<>>]
    /\ UNCHANGED <<portfolio_cache, first_return, fit_calculator, now, encoder, last,
                   stored, tasks, semaphore>>

\* a free worker thread takes the oldest pending work item
RunItem ==
    /\ last.op = "call process_batch"
    /\ Cardinality(InProgress) < last.max_workers
    /\ \E p \in DOMAIN tasks :
           /\ tasks[p] = "pending"
           /\ \A q \in 1..(p - 1) : tasks[q] # "pending"
           /\ tasks' = [tasks EXCEPT ![p] = "running"]
    /\ UNCHANGED <<portfolio_cache, first_return, fit_calculator, now, encoder, last,
                   stored, semaphore, frame>>

\* processor_func(item) returns or raises in its thread: the future is done
FinishItem ==
    /\ last.op = "call process_batch"
    /\ \E p \in InProgress : tasks' = [tasks EXCEPT ![p] = "done"]
    /\ UNCHANGED <<portfolio_cache, first_return, fit_calculator, now, encoder, last,
                   stored, semaphore, frame>>

\* as_completed yields a future that is done, in no fixed order among those
\* that are, and the loop body runs for it
CollectFuture ==
    /\ last.op = "call process_batch"
    /\ frame.pc = "collect"
    /\ \E p \in CurrentBatch :
           /\ tasks[p] = "done"
           /\ tasks' = [tasks EXCEPT ![p] = "collected"]
           /\ frame' = [frame EXCEPT
                           !.batch_results = Batch_append_result(@, last.items[p], p)]
    /\ UNCHANGED <<portfolio_cache, first_return, fit_calculator, now, encoder, last,
                   stored, semaphore>>

\* every future of the batch was yielded: results.extend(batch_results),
\* time.sleep(0.1), and the loop goes to the next batch
NextBatch ==
    /\ last.op = "call process_batch"
    /\ frame.pc = "collect"
    /\ \A p \in CurrentBatch : tasks[p] = "collected"
    /\ frame' = [pc |-> "submit", i |-> frame.i + last.batch_size,
                 batch_results |-> frame.batch_results,
                 results |-> frame.results \o frame.batch_results]
    /\ UNCHANGED <<portfolio_cache, first_return, fit_calculator, now, encoder, last,
                   stored, tasks, semaphore>>

\* range(0, len(items), batch_size) is exhausted: return results
ReturnResults ==
    /\ last.op = "call process_batch"
    /\ frame.pc = "submit"
    /\ frame.i >= Len(last.items)
    /\ last' = [op |-> "process_batch", items |-> last.items,
                batch_size |-> last.batch_size, max_workers |-> last.max_workers,
                returned |-> frame.results]
    /\ UNCHANGED <<portfolio_cache, first_return, fit_calculator, now, encoder,
                   stored, tasks, semaphore, frame>>

NextBatchCall ==
    \/ SubmitItem \/ BeginCollect \/ RunItem \/ FinishItem \/ CollectFuture
    \/ NextBatch \/ ReturnResults

SpecBatch == InitBatch /\ [][NextBatchCall]_vars

\* the stage alignment the rule of distances gives when no stage matches exactly:
\* 75 when some VC stage is within distance 1, 50 when none is but some is
\* within 2, else 0
StageAlignmentByDistance(funding_stage, investment_stages) ==
    LET n == Base_stage_hierarchy(Lower(funding_stage))
        distances == {Abs(n - Base_stage_hierarchy(Lower(s))) : s \in Range(investment_stages)}
    IN  IF \E d \in distances : d <= 1 THEN 7500
        ELSE IF \E d \in distances : d <= 2 THEN 5000
        ELSE 0

\* no exact string match between the startup's stage and any VC stage
NoExactStageMatch(funding_stage, investment_stages) ==
    /\ Truthy(funding_stage)
    /\ investment_stages # <<>>
    /\ Lower(funding_stage) \notin Range(LowerAll(investment_stages))

\* C2: without an exact match, the stage alignment of both calculators is 75
\* when at least one VC investment stage is within ordinal distance 1 of the
\* startup's stage, 50 when none is within 1 but one is within 2, and 0
\* otherwise, so the order of investment_stages does not matter.
C2_StageAlignmentFollowsDistance ==
    (last.op = "_calculate_stage_alignment"
     /\ NoExactStageMatch(last.funding_stage, last.investment_stages))
    => LET expected == StageAlignmentByDistance(last.funding_stage, last.investment_stages)
       IN  last.base = expected /\ last.optimized = expected

\* C3: every score a sub-scorer produces lies in [0,100]: text similarity,
\* industry, stage and geographic alignment, network proximity and the overall
\* fit score of both calculators, and the quality score.
C3_ScoresWithinRange ==
    last.op = "calculate_fit_metrics"
    => /\ \A f \in {"text_similarity", "industry_alignment", "stage_alignment",
                    "geographic_alignment", "network_proximity", "overall_score"} :
              /\ last.base.metrics[f] >= 0 /\ last.base.metrics[f] <= 10000
              /\ last.optimized.metrics[f] >= 0 /\ last.optimized.metrics[f] <= 10000
       /\ last.quality_score >= 0 /\ last.quality_score <= 10000

PortfolioOps ==
    {"_get_portfolio_companies", "_detect_portfolio_conflicts", "_calculate_portfolio_fit"}

\* C7: once _get_portfolio_companies(vc_firm) has returned on an agent, every
\* later call on that agent with the same firm returns the list of the first
\* call and invokes neither the RAG scraper nor the fallback scraper, also
\* when that list is empty; and an agent's cache holds only what its own
\* calls resolved, so two agents share no entry.
C7_PortfolioCachePerAgent ==
    /\ (last.op \in PortfolioOps /\ last.returned_before)
       => /\ last.companies = first_return[last.agent][last.vc_firm]
          /\ ~last.rag_invoked
          /\ ~last.fallback_invoked
    /\ \A a \in DOMAIN portfolio_cache :
          /\ DOMAIN portfolio_cache[a] = DOMAIN first_return[a]
          /\ \A f \in DOMAIN portfolio_cache[a] :
                portfolio_cache[a][f] = first_return[a][f]

\* a repeated call for a firm whose portfolio resolved to the empty list, on
\* an agent whose cache differs from the other agent's for that firm
C7_Witness ==
    /\ last.op = "_get_portfolio_companies"
    /\ last.returned_before
    /\ last.companies = <<>>
    /\ \E b \in Agents \ {last.agent} :
          /\ last.vc_firm \in DOMAIN portfolio_cache[b]
          /\ portfolio_cache[b][last.vc_firm] # <<>>

\* the conflict types a portfolio company trips, by the three rules: name
\* ratio above 0.7, equal non-empty industries up to case, description ratio
\* above 0.6 (names and descriptions compared in lower case, as the code does)
RulesTripped(startup, company) ==
    (IF RatioAbove(Lower(startup.name), Lower(company.name), 7, 10)
     THEN <<"name_similarity">> ELSE <<>>)
    \o (IF Truthy(startup.industry) /\ Truthy(company.industry)
           /\ Lower(startup.industry) = Lower(company.industry)
        THEN <<"industry_conflict">> ELSE <<>>)
    \o (IF Truthy(startup.description) /\ Truthy(company.description)
           /\ RatioAbove(Lower(startup.description), Lower(company.description), 6, 10)
        THEN <<"business_model_conflict">> ELSE <<>>)

\* the entries the rules call for: per company, in list order, one
\* <<name, type>> for each rule tripped
RECURSIVE ExpectedEntries(_, _)
ExpectedEntries(startup, companies) ==
    IF companies = <<>> THEN <<>>
    ELSE LET tripped == RulesTripped(startup, Head(companies))
         IN  [i \in 1..Len(tripped) |-> <<Head(companies).name, tripped[i]>>]
             \o ExpectedEntries(startup, Tail(companies))

ExpectedEntriesOf ==
    [s \in PortfolioStartups |-> [l \in PortfolioLists |-> ExpectedEntries(s, l)]]

\* C8: the conflict detector appends a portfolio company's name and the type
\* once for each rule the company trips (k rules, k entries), the two lists
\* have equal length, and a startup sharing a non-empty industry with a
\* portfolio company gets has_conflicts = True with "industry_conflict".
C8_OneEntryPerRuleTripped ==
    last.op = "_detect_portfolio_conflicts"
    => LET expected == ExpectedEntriesOf[last.startup][last.companies]
           c == last.conflicts
       IN  /\ c.conflict_companies = [i \in 1..Len(expected) |-> expected[i][1]]
           /\ c.conflict_types = [i \in 1..Len(expected) |-> expected[i][2]]
           /\ Len(c.conflict_companies) = Len(c.conflict_types)
           /\ (\E i \in 1..Len(last.companies) :
                  /\ Truthy(last.startup.industry)
                  /\ Lower(last.startup.industry) = Lower(last.companies[i].industry))
              => (c.has_conflicts /\ "industry_conflict" \in Range(c.conflict_types))

\* a portfolio company that tripped all three rules and is listed three times
C8_Witness ==
    /\ last.op = "_detect_portfolio_conflicts"
    /\ \E n \in Range(last.conflicts.conflict_companies) :
          Cardinality({i \in 1..Len(last.conflicts.conflict_companies) :
                          last.conflicts.conflict_companies[i] = n}) = 3

\* C9: severity is "high" for more than 2 conflict_companies entries, "medium"
\* for 1 or 2, "none" for 0, and has_conflicts is True exactly when severity
\* is not "none".
C9_SeverityByEntryCount ==
    last.op = "_detect_portfolio_conflicts"
    => LET n == Len(last.conflicts.conflict_companies)
       IN  /\ last.conflicts.severity =
                  (IF n > 2 THEN "high" ELSE IF n >= 1 THEN "medium" ELSE "none")
           /\ last.conflicts.has_conflicts <=> (last.conflicts.severity # "none")

\* exactly two entries, one company having tripped two rules: "medium"
C9_Witness ==
    /\ last.op = "_detect_portfolio_conflicts"
    /\ Len(last.conflicts.conflict_companies) = 2
    /\ last.conflicts.conflict_companies[1] = last.conflicts.conflict_companies[2]
    /\ last.conflicts.severity = "medium"

\* C10: with a non-empty portfolio, the portfolio-fit score is 75.0 when no
\* portfolio company has the candidate's industry, 30.0 when more than 5
\* have it, 50.0 when 3 to 5 have it and 65.0 when 1 or 2 have it; the dict
\* has portfolio_fit_score and a reasoning list of one element.
C10_PortfolioFitByIndustryCount ==
    (last.op = "_calculate_portfolio_fit" /\ last.companies # <<>>)
    => LET n == Cardinality({i \in 1..Len(last.companies) :
                                last.companies[i].industry = last.startup.industry})
       IN  /\ DOMAIN last.portfolio_fit = {"portfolio_fit_score", "reasoning"}
           /\ last.portfolio_fit.portfolio_fit_score =
                  (IF n = 0 THEN 7500 ELSE IF n > 5 THEN 3000
                   ELSE IF n >= 3 THEN 5000 ELSE 6500)
           /\ Len(last.portfolio_fit.reasoning) = 1

\* a candidate whose industry six portfolio companies have: 30.0
C10_Witness ==
    /\ last.op = "_calculate_portfolio_fit"
    /\ Cardinality({i \in 1..Len(last.companies) :
                       last.companies[i].industry = last.startup.industry}) > 5
    /\ last.portfolio_fit.portfolio_fit_score = 3000

\* what a batch call returns, as far as C5 speaks of it
ScoresReturned(results) ==
    [i \in 1..Len(results) |->
        [startup_id |-> results[i].startup_id,
         text_similarity |-> results[i].text_similarity,
         overall_score |-> results[i].overall_score]]

\* C5: the embedding caches never change a result: every text_similarity and
\* overall_score a calculate_fit_metrics_batch call returns equals the value
\* the same call returns on the calculator with its caches (vc_embeddings, lru
\* cache, CachingProcessor) cleared immediately before the call.
C5_CachesNeverChangeResult ==
    last.op = "calculate_fit_metrics_batch"
    => ScoresReturned(last.results) = ScoresReturned(last.cleared_results)

\* the results of the request that has just returned
SourcedResults ==
    IF last.op = "source_startups_for_vc" /\ ~last.raised THEN Range(last.results) ELSE {}

\* C1: in every result of _create_startup_analysis, a startup whose
\* portfolio_conflicts has severity "high" is recommended "High Conflict -
\* Avoid" and one of severity "medium" "Moderate Conflict - Review carefully",
\* whatever the combined score, the pros and the cons are; the recommendation
\* of the score tier is kept only with severity "none".
C1_ConflictSeverityDecidesRecommendation ==
    \A r \in SourcedResults :
        LET severity == r.fit_metrics.portfolio_conflicts.severity
            tier == Agent_get_startup_recommendation(r.fit_metrics.overall_score,
                                                     r.pros, r.cons)
        IN  /\ severity \in {"high", "medium", "none"}
            /\ severity = "high" => r.recommendation = "High Conflict - Avoid"
            /\ severity = "medium"
                   => r.recommendation = "Moderate Conflict - Review carefully"
            /\ severity = "none" => r.recommendation = tier
            /\ r.recommendation = tier => severity = "none"

\* one request returns a startup of each severity
C1_Witness ==
    \A severity \in {"high", "medium", "none"} :
        \E r \in SourcedResults : r.fit_metrics.portfolio_conflicts.severity = severity

\* C4: source_startups_for_vc raises to its caller only when no VC profile
\* could be resolved and source_talent_for_portfolio only when no portfolio
\* companies were found; on every other input, a profile without focus areas
\* included, they return a SourcingResult.
C4_RaisesOnlyWithoutProfileOrPortfolio ==
    /\ (last.op = "source_startups_for_vc" /\ last.raised)
           => (~last.scraped.resolved
               /\ last.error = "ValueError: Could not find VC profile for " \o last.vc_firm)
    /\ (last.op = "source_talent_for_portfolio" /\ last.raised)
           => (portfolio_cache[SourcingAgent][last.vc_firm] = <<>>
               /\ last.error = "ValueError: No portfolio companies found for "
                                 \o last.vc_firm)

\* the unique startups of the request whose scoring raised, going by the VC
\* embedding the calculator used
ScoringRaised(startup) ==
    LET vc == last.scraped.profile
    IN  Opt_calculate_single_fit_metrics(
            NewCalculator, encoder, startup, vc,
            fit_calculator.vc_embeddings[Opt_vc_key(vc)], now).raised

\* C6: calculate_fit_metrics_batch returns exactly one FitMetrics for each
\* startup whose scoring did not raise, in input order, and none for a startup
\* whose scoring raised; the orchestrator's result list has no entry for a
\* skipped startup and one entry for every other startup.
C6_BatchSkipsRaisingStartups ==
    (last.op = "source_startups_for_vc" /\ ~last.raised)
    => LET scored == SelectSeq(last.unique_startups, LAMBDA s : ~ScoringRaised(s))
       IN  /\ Len(last.fit_metrics) = Len(scored)
           /\ \A i \in 1..Len(scored) : last.fit_metrics[i].startup_id = scored[i].name
           /\ Len(last.results) = Len(scored)
           /\ \A i \in 1..Len(last.unique_startups) :
                 Cardinality({j \in 1..Len(last.results) :
                                 last.results[j].company_name = last.unique_startups[i].name})
                 = IF ScoringRaised(last.unique_startups[i]) THEN 0 ELSE 1

\* a request found a startup whose scoring raised and one whose scoring did
\* not, and returned an entry for the second only
C6_Witness ==
    /\ last.op = "source_startups_for_vc"
    /\ ~last.raised
    /\ \E i, j \in 1..Len(last.unique_startups) :
          /\ i < j
          /\ ScoringRaised(last.unique_startups[i])
          /\ ~ScoringRaised(last.unique_startups[j])
    /\ Len(last.results) = Len(last.unique_startups) - 1

\* C11: when the firm's portfolio resolves to the empty list,
\* _calculate_portfolio_fit returns 50.0 with the reasoning "No portfolio data
\* available", and _detect_portfolio_conflicts returns has_conflicts False, no
\* conflict_companies, no conflict_types and severity "none"; both return.
C11_EmptyPortfolioDefaults ==
    /\ (last.op = "_calculate_portfolio_fit" /\ last.companies = <<>>)
       => last.portfolio_fit = [portfolio_fit_score |-> 5000,
                                reasoning |-> <<"No portfolio data available">>]
    /\ (last.op = "_detect_portfolio_conflicts" /\ last.companies = <<>>)
       => last.conflicts = [has_conflicts |-> FALSE, conflict_companies |-> <<>>,
                            conflict_types |-> <<>>, severity |-> "none"]

\* a portfolio fit asked for a firm whose portfolio resolved to the empty
\* list, by the call itself (a first call for the firm on that agent)
C11_Witness ==
    /\ last.op = "_calculate_portfolio_fit"
    /\ ~last.returned_before
    /\ last.fallback_invoked
    /\ last.companies = <<>>
    /\ last.portfolio_fit.portfolio_fit_score = 5000

\* the startup a result of the last request reports on, and the FitMetrics the
\* batch returned for it
ResultStartup(r) ==
    CHOOSE s \in Range(last.unique_startups) : s.name = r.company_name

ResultMetric(r) ==
    CHOOSE m \in Range(last.fit_metrics) : m.startup_id = r.company_name

\* C12: in every result the combined score reported as fit_metrics.overall_score
\* is 0.4 x the fit overall score + 0.3 x the startup's quality score + 0.3 x
\* its portfolio_fit_score, with or without conflicts (scores in hundredths,
\* the combined score in thousandths).
C12_CombinedScoreWeights ==
    \A r \in SourcedResults :
        LET fit == ResultMetric(r).overall_score
            quality == SourcingQuality[ResultStartup(r)]
            portfolio_fit ==
                SourcingFits[ResultStartup(r)]
                            [portfolio_cache[SourcingAgent][last.vc_firm]].portfolio_fit_score
        IN  /\ r.fit_metrics.fit_score = fit
            /\ r.fit_metrics.quality_score = quality
            /\ r.fit_metrics.portfolio_fit_score = portfolio_fit
            /\ r.fit_metrics.overall_score = 4 * fit + 3 * quality + 3 * portfolio_fit

\* one request returns a startup with conflicts and one without, each with a
\* fit score, a quality score and a portfolio fit above 0
C12_Witness ==
    \A conflicts \in BOOLEAN :
        \E r \in SourcedResults :
            /\ r.fit_metrics.portfolio_conflicts.has_conflicts = conflicts
            /\ r.fit_metrics.fit_score > 0
            /\ r.fit_metrics.quality_score > 0
            /\ r.fit_metrics.portfolio_fit_score > 0

\* C13: the result list of _create_startup_analysis, which
\* source_startups_for_vc returns as SourcingResult.results, is in
\* non-increasing order of combined score, results with an overridden
\* recommendation included.
C13_ResultsSortedByCombinedScore ==
    (last.op = "source_startups_for_vc" /\ ~last.raised)
    => \A i, j \in 1..Len(last.results) :
           i < j => last.results[i].fit_metrics.overall_score
                    >= last.results[j].fit_metrics.overall_score

\* a request returned three results in another order than the startups were
\* scored in, the first of them with a recommendation a conflict overrode
C13_Witness ==
    /\ last.op = "source_startups_for_vc"
    /\ ~last.raised
    /\ Len(last.results) = 3
    /\ last.results[1].company_name # last.fit_metrics[1].startup_id
    /\ last.results[1].fit_metrics.portfolio_conflicts.has_conflicts
    /\ last.results[1].fit_metrics.overall_score > last.results[3].fit_metrics.overall_score

\* C14: industry alignment is 0 when the startup's industry is missing or
\* empty or the VC names no focus area; otherwise it is 100 exactly when the
\* industry equals one of the focus areas, case ignored.  Both calculators.
C14_IndustryExactMatch ==
    last.op = "_calculate_industry_alignment"
    => LET matches == \E i \in 1..Len(last.focus_areas) :
                          Lower(last.focus_areas[i]) = Lower(last.industry)
       IN  \A score \in {last.base, last.optimized} :
               IF ~Truthy(last.industry) \/ last.focus_areas = <<>>
               THEN score = 0
               ELSE score = 10000 <=> matches

\* an industry that matches the second focus area in another case, scored 100
C14_Witness ==
    /\ last.op = "_calculate_industry_alignment"
    /\ last.industry = "FinTech"
    /\ Len(last.focus_areas) = 2
    /\ last.focus_areas[2] = "Fintech"
    /\ last.focus_areas[1] # "Fintech"
    /\ last.base = 10000
    /\ last.optimized = 10000

\* what C15 says industry alignment is without an exact match
IndustryAlignmentByRule(industry, focus_areas) ==
    LET startup_industry == Lower(industry)
        areas == Range(LowerAll(focus_areas))
    IN  IF \E a \in areas : \/ IsSubstring(startup_industry, a)
                            \/ IsSubstring(a, startup_industry)
                            \/ RatioAbove(startup_industry, a, 7, 10)
        THEN 7500
        ELSE IF \E r \in Range(Base_get_related_industries(startup_industry)) : r \in areas
        THEN 5000
        ELSE 0

\* C15: without an exact match, industry alignment is 75 when the industry and
\* some focus area contain one another or have a sequence-matching ratio above
\* 0.7, otherwise 50 when the related-industries table maps the industry to one
\* of the focus areas, otherwise 0; for OptimizedFitMetricCalculator as for
\* FitMetricCalculator.
C15_IndustryPartialAndRelated ==
    (/\ last.op = "_calculate_industry_alignment"
     /\ Truthy(last.industry)
     /\ last.focus_areas # <<>>
     /\ Lower(last.industry) \notin Range(LowerAll(last.focus_areas)))
    => LET expected == IndustryAlignmentByRule(last.industry, last.focus_areas)
       IN  last.base = expected /\ last.optimized = expected

\* a string with its lower-case letters turned to upper case
RECURSIVE UpperCase(_)
UpperCase(s) ==
    IF Len(s) = 0 THEN ""
    ELSE LET c == SubSeq(s, 1, 1)
         IN  (IF \E u \in DOMAIN LowerMap : LowerMap[u] = c
              THEN CHOOSE u \in DOMAIN LowerMap : LowerMap[u] = c
              ELSE c)
             \o UpperCase(SubSeq(s, 2, Len(s)))

\* the stage alignment of both calculators for a funding stage and a list of
\* investment stages
StageAlignments(funding_stage, investment_stages) ==
    LET startup == MkStartup("S", NONE, NONE, NONE, funding_stage, 0, <<>>)
        vc == MkVC("V", NONE, <<>>, investment_stages, <<>>, <<>>)
    IN  <<Base_calculate_stage_alignment(startup, vc),
          Opt_calculate_stage_alignment(startup, vc)>>

\* C16: stage alignment does not change when the case of the funding stage or
\* of the investment stages changes; an exact match gives 100; and when the
\* funding stage and some investment stage are at ordinal distance 0 of the
\* hierarchy (unknown stages have ordinal 0) the result is at least 75.
C16_StageCaseAndDistanceZero ==
    (last.op = "_calculate_stage_alignment" /\ Truthy(last.funding_stage))
    => LET here == <<last.base, last.optimized>>
           stages == last.investment_stages
           ordinal(s) == Base_stage_hierarchy(Lower(s))
       IN  /\ StageAlignments(UpperCase(last.funding_stage), stages) = here
           /\ StageAlignments(Lower(last.funding_stage), stages) = here
           /\ StageAlignments(last.funding_stage,
                              [i \in 1..Len(stages) |-> UpperCase(stages[i])]) = here
           /\ Lower(last.funding_stage) \in Range(LowerAll(stages))
                  => here = <<10000, 10000>>
           /\ (\E i \in 1..Len(stages) : ordinal(stages[i]) = ordinal(last.funding_stage))
                  => (last.base >= 7500 /\ last.optimized >= 7500)

\* the region of the fixed table a lower-cased location falls in: the first
\* region one of whose cities the location contains, "other" when none
RegionOf(location) ==
    LET table == << <<"bay area", {"san francisco", "palo alto", "mountain view"}>>,
                    <<"new york", {"new york", "brooklyn", "manhattan"}>>,
                    <<"texas", {"austin", "dallas", "houston"}>>,
                    <<"boston", {"boston", "cambridge"}>> >>
        hits == {i \in 1..Len(table) : \E city \in table[i][2] : IsSubstring(city, location)}
    IN  IF hits = {} THEN "other"
        ELSE table[CHOOSE i \in hits : \A j \in hits : i <= j][1]

\* C17: geographic alignment of FitMetricCalculator is 0 for a missing or empty
\* location or an empty geographic_focus list; otherwise 100 when the
\* lower-cased location equals a lower-cased VC entry, else 75 when a
\* ", "-separated component of it does, else 50 when the location and some VC
\* entry fall in the same region of the table ("other" included), else 0.
C17_GeographicAlignmentTiers ==
    last.op = "_calculate_geographic_alignment"
    => LET location == Lower(last.location)
           entries == Range(LowerAll(last.geographic_focus))
       IN  last.base =
               (IF ~Truthy(last.location) \/ last.geographic_focus = <<>> THEN 0
                ELSE IF location \in entries THEN 10000
                ELSE IF \E part \in Range(Split(location, ", ")) : part \in entries THEN 7500
                ELSE IF \E e \in entries : RegionOf(e) = RegionOf(location) THEN 5000
                ELSE 0)

\* a location outside the table against an entry outside the table: both fall
\* in "other", scored 50
C17_Witness ==
    /\ last.op = "_calculate_geographic_alignment"
    /\ last.location = "Paris"
    /\ last.geographic_focus = <<"Berlin">>
    /\ last.base = 5000

\* C18: for a startup whose founders list is empty, whatever its description,
\* industry, location and founding year, calculate_quality_score returns
\* exactly 0.0 and _calculate_team_completeness returns 0.
C18_NoFoundersScoreZero ==
    (last.op = "calculate_quality_score" /\ last.startup.founders = <<>>)
    => /\ last.quality_score = 0
       /\ last.team_score = 0

\* a company that scores on its description, industry, location and age, with
\* no founders
C18_Witness ==
    /\ last.op = "calculate_quality_score"
    /\ last.startup.founders = <<>>
    /\ last.startup.description = LongDescription
    /\ last.startup.industry = "Fintech"
    /\ last.startup.location = "Boston, MA"
    /\ last.startup.founded_year = 2022
    /\ last.company_score > 0
    /\ last.quality_score = 0

\* the number of tier boundaries of the connections bonus below a count
ConnectionTier(c) == Cardinality({b \in {100, 200, 500, 1000} : c > b})

\* C19: of two startups that differ only in one founder's linkedin_connections,
\* c1 <= c2, the first has a quality score no greater than the second, and the
\* founders' network scores are the same unless the count crossed 100, 200,
\* 500 or 1000 on the way from c1 to c2.
C19_QualityMonotoneInConnections ==
    (last.op = "calculate_quality_score" /\ last.founder # 0)
    => LET c1 == last.startup.founders[last.founder].linkedin_connections
           c2 == last.connections
       IN  c1 <= c2
           => /\ last.quality_score <= last.more_quality_score
              /\ ConnectionTier(c1) = ConnectionTier(c2)
                 => /\ last.network_scores = last.more_network_scores
                    /\ last.quality_score = last.more_quality_score

\* one founder going from 100 to 101 connections raises the quality score
C19_Witness ==
    /\ last.op = "calculate_quality_score"
    /\ last.founder = 1
    /\ Len(last.startup.founders) = 1
    /\ last.startup.founders[1].linkedin_connections = 100
    /\ last.connections = 101
    /\ last.quality_score < last.more_quality_score

\* C20: for a startup with at least one founder, calculate_quality_score is
\* 0.6 x the mean of the founder scores + 0.25 x the company score + 0.15 x the
\* team-completeness score rounded to two decimals, i.e. the hundredth nearest
\* to that sum, and it lies in [0, 100].  Scores are whole points here and the
\* result is in hundredths, so with n founders the sum times 10000 n is
\* 6000 x (sum of founder scores) + n x (2500 x company + 1500 x team).
C20_QualityWeightedMean ==
    (last.op = "calculate_quality_score" /\ last.startup.founders # <<>>)
    => LET n == Len(last.founder_scores)
           scaled == 6000 * SumSeq(last.founder_scores)
                     + n * (2500 * last.company_score + 1500 * last.team_score)
           distance == 100 * n * last.quality_score - scaled
       IN  /\ -50 * n <= distance
           /\ distance <= 50 * n
           /\ last.quality_score \in 0..10000

\* a team of three with unequal founder scores in a company that scores
C20_Witness ==
    /\ last.op = "calculate_quality_score"
    /\ Len(last.startup.founders) = 3
    /\ last.founder_scores[1] < last.founder_scores[2]
    /\ last.company_score > 0
    /\ last.team_score > 0
    /\ last.quality_score > 0

\* the five sub-scores of a FitMetrics or of a call, as a tuple
SubScores(m) ==
    <<m.text_similarity, m.industry_alignment, m.stage_alignment,
      m.geographic_alignment, m.network_proximity>>

\* overall is the hundredth nearest to 0.25 x text similarity + 0.25 x industry
\* alignment + 0.20 x stage alignment + 0.15 x geographic alignment + 0.15 x
\* network proximity (all in hundredths, the sum in ten-thousandths), and lies
\* in [0, 100] when the five sub-scores do
IsWeightedOverall(overall, sub) ==
    LET sum == 25 * sub[1] + 25 * sub[2] + 20 * sub[3] + 15 * sub[4] + 15 * sub[5]
    IN  /\ -50 <= 100 * overall - sum
        /\ 100 * overall - sum <= 50
        /\ (\A i \in 1..5 : sub[i] \in 0..10000) => overall \in 0..10000

\* C21: the overall score both calculators compute from five sub-scores, and
\* the overall_score of the FitMetrics they build, is the weighted sum with
\* weights 0.25, 0.25, 0.20, 0.15, 0.15 rounded to two decimals, within
\* [0, 100] when the sub-scores are, whether or not the FitMetricCalculator
\* holds a trained fit_model.
C21_OverallScoreFormula ==
    /\ last.op = "_calculate_overall_score"
       => /\ IsWeightedOverall(last.base, SubScores(last))
          /\ IsWeightedOverall(last.optimized, SubScores(last))
    /\ last.op = "calculate_fit_metrics"
       => /\ IsWeightedOverall(last.base.metrics.overall_score,
                               SubScores(last.base.metrics))
          /\ IsWeightedOverall(last.optimized.metrics.overall_score,
                               SubScores(last.optimized.metrics))

\* a FitMetricCalculator holding a trained model returns a FitMetrics whose
\* sub-scores are not all alike
C21_Witness ==
    /\ last.op = "calculate_fit_metrics"
    /\ last.fit_model = "RandomForestRegressor"
    /\ ~last.base.raised
    /\ last.base.metrics.industry_alignment = 10000
    /\ last.base.metrics.stage_alignment = 10000
    /\ last.base.metrics.network_proximity \in 1..9999
    /\ last.base.metrics.overall_score \in 1..9999

\* C22: _get_startup_recommendation returns the "Strong Match" tier for a
\* combined score >= 80, "Good Match" for >= 65 and < 80, "Moderate Match" for
\* >= 50 and < 65 and "Weak Match" below 50 (the score in thousandths here),
\* whatever the pros and the cons are.
C22_RecommendationTiers ==
    last.op = "_get_startup_recommendation"
    => /\ last.score >= 80000
          => last.recommendation = "Strong Match - Highly recommend"
       /\ (last.score >= 65000 /\ last.score < 80000)
          => last.recommendation = "Good Match - Worth considering"
       /\ (last.score >= 50000 /\ last.score < 65000)
          => last.recommendation = "Moderate Match - Review further"
       /\ last.score < 50000
          => last.recommendation = "Weak Match - Low priority"

\* a score of exactly 80 with cons and no pros is a strong match
C22_Witness ==
    /\ last.op = "_get_startup_recommendation"
    /\ last.score = 80000
    /\ last.pros = <<>>
    /\ Len(last.cons) = 2
    /\ last.recommendation = "Strong Match - Highly recommend"

\* the bonus of a count c from a table of <<boundary, bonus>> pairs: that of
\* the highest boundary c is strictly above, 0 when it is above none
TierBonus(c, table) ==
    LET above == {i \in 1..Len(table) : c > table[i][1]}
    IN  IF above = {} THEN 0
        ELSE table[CHOOSE i \in above : \A j \in above : table[j][1] <= table[i][1]][2]

\* C23: a founder's quality score is the sum of the experience, education,
\* honors and network sub-scores, which are at most 35, 20, 30 and 15, so it is
\* within [0, 100]; the network sub-score is the connections bonus (above 1000:
\* 10, above 500: 8, above 200: 6, above 100: 4) plus the endorsements bonus
\* (above 50: 5, above 20: 4, above 10: 3), a count on a boundary earning the
\* lower tier's bonus.
C23_FounderScoreParts ==
    last.op = "_calculate_founder_quality"
    => /\ last.founder_score = last.experience_score + last.education_score
                               + last.honors_score + last.network_score
       /\ last.experience_score \in 0..35
       /\ last.education_score \in 0..20
       /\ last.honors_score \in 0..30
       /\ last.network_score \in 0..15
       /\ last.founder_score \in 0..100
       /\ last.network_score =
              TierBonus(last.founder.linkedin_connections,
                        << <<100, 4>>, <<200, 6>>, <<500, 8>>, <<1000, 10>> >>)
              + TierBonus(last.founder.endorsements, << <<10, 3>>, <<20, 4>>, <<50, 5>> >>)

\* a founder at every cap but the network's, with exactly 1000 connections and
\* exactly 50 endorsements: the bonuses are those of the tiers below
C23_Witness ==
    /\ last.op = "_calculate_founder_quality"
    /\ last.founder.linkedin_connections = 1000
    /\ last.founder.endorsements = 50
    /\ last.experience_score = 35
    /\ last.education_score = 20
    /\ last.honors_score = 30
    /\ last.network_score = 12
    /\ last.founder_score = 97

\* the founders of a team whose title contains a word, in any case
TitledFounders(founders, word) ==
    {i \in 1..Len(founders) :
        Truthy(founders[i].title) /\ IsSubstring(word, Lower(founders[i].title))}

\* C24: team completeness is the founder-count bonus (3 or more: 30, 2: 25,
\* 1: 15, 0: 0) plus the role-diversity bonus on the roles inferred from the
\* titles (3 or more: 40, 2: 30, 1: 20, 0: 0) plus the key-role bonus (ceo, cto
\* and cpo all inferred: 30, two of them: 20, one: 10), at most 100; and a
\* team of three founders whose titles contain a CEO, a CTO and a CPO, one
\* each, scores 100.
C24_TeamCompleteness ==
    last.op = "_calculate_team_completeness"
    => LET founders == last.founders
           n == Len(founders)
           roles == UNION {Q_title_roles(founders[i].title) : i \in 1..n}
           key == Cardinality(roles \cap {"ceo", "cto", "cpo"})
           count_bonus == IF n >= 3 THEN 30 ELSE IF n = 2 THEN 25 ELSE IF n = 1 THEN 15 ELSE 0
           role_bonus == IF Cardinality(roles) >= 3 THEN 40
                         ELSE IF Cardinality(roles) = 2 THEN 30
                         ELSE IF Cardinality(roles) = 1 THEN 20 ELSE 0
           key_bonus == IF key = 3 THEN 30 ELSE IF key = 2 THEN 20
                        ELSE IF key = 1 THEN 10 ELSE 0
       IN  /\ last.team_score = Min(100, count_bonus + role_bonus + key_bonus)
           /\ (/\ n = 3
               /\ \E i \in TitledFounders(founders, "ceo"),
                     j \in TitledFounders(founders, "cto"),
                     k \in TitledFounders(founders, "cpo") : i # j /\ j # k /\ i # k)
              => last.team_score = 100

\* C25: get_cached_result(key) returns the value the latest cache_result call
\* for the key stored, when that call came after the last clear_cache and less
\* than cache_ttl seconds before the read; otherwise it returns None and the
\* key is not in the cache after the read.  cache_result leaves the key with
\* the new value and the new timestamp, and clear_cache leaves nothing.
C25_ExpiryCheckedOnRead ==
    /\ last.op = "get_cached_result"
       => IF /\ last.key \in DOMAIN stored
             /\ last.time - stored[last.key].timestamp < cache_ttl
          THEN last.returned = stored[last.key].result
          ELSE /\ last.returned = NONE
               /\ last.key \notin DOMAIN fit_calculator.cp_cache
    /\ last.op = "cache_result"
       => fit_calculator.cp_cache[last.key] =
              [result |-> last.result, timestamp |-> last.time]
    /\ last.op = "clear_cache" => DOMAIN fit_calculator.cp_cache = {}

\* a read exactly cache_ttl seconds after the key was stored returns None
C25_Witness ==
    /\ last.op = "get_cached_result"
    /\ last.key \in DOMAIN stored
    /\ stored[last.key].timestamp > 0
    /\ last.time - stored[last.key].timestamp = cache_ttl
    /\ last.returned = NONE

\* the results of the items whose processing did not raise, in input order
ResultsOfItemsNotRaising(items) ==
    LET kept == SelectSeq([i \in 1..Len(items) |-> i], LAMBDA i : ~Raises(items[i]))
    IN  [k \in 1..Len(kept) |-> GatherResult(items[kept[k]], kept[k])]

\* C26: during process_with_semaphore at most max_concurrent invocations of
\* processor_func are in progress, and the list returned holds the results of
\* exactly the items whose processing did not raise, in input order.
C26_SemaphoreBoundsAndFilters ==
    /\ last.op = "call process_with_semaphore"
       => Cardinality(InProgress) <= last.max_concurrent
    /\ last.op = "process_with_semaphore"
       => last.returned = ResultsOfItemsNotRaising(last.items)

\* C26, the part on progress: every call returns, all its items processed
C26_EveryItemProcessed ==
    <>(last.op = "process_with_semaphore" /\ \A i \in DOMAIN tasks : tasks[i] = "done")

\* the batch an item position belongs to, counted from 0
BatchNumber(p, batch_size) == (p - 1) \div batch_size

C28_NewIndustryHasNoIndustryConflict ==
    (/\ last.op \in {"_calculate_portfolio_fit", "_detect_portfolio_conflicts"}
     /\ last.companies # <<>>)
    => LET portfolio_fit == PortfolioFits[last.startup][last.companies]
           conflicts == DetectedConflicts[last.startup][last.companies]
           industry_conflict ==
               \E i \in DOMAIN conflicts.conflict_types :
                   conflicts.conflict_types[i] = "industry_conflict"
       IN  /\ (/\ portfolio_fit.portfolio_fit_score = 7500
               /\ portfolio_fit.reasoning = <<"New industry for portfolio">>)
              => ~industry_conflict
           /\ industry_conflict
              => Agent_industry_count(last.companies, last.startup.industry) >= 1


\* C29: the optimized calculator and the base calculator agree on the
\* rule-based sub-scores: for every startup and VC profile the industry
\* alignment, stage alignment, geographic alignment and network proximity of
\* OptimizedFitMetricCalculator equal those of FitMetricCalculator.
C29_OptimizedAgreesWithBase ==
    /\ last.op \in {"_calculate_industry_alignment", "_calculate_stage_alignment",
                    "_calculate_geographic_alignment"}
       => last.optimized = last.base
    /\ last.op = "calculate_fit_metrics"
       => /\ last.optimized.metrics.industry_alignment = last.base.metrics.industry_alignment
          /\ last.optimized.metrics.stage_alignment = last.base.metrics.stage_alignment
          /\ last.optimized.metrics.geographic_alignment
                 = last.base.metrics.geographic_alignment
          /\ last.optimized.metrics.network_proximity = last.base.metrics.network_proximity


\* a company name lower-cased and trimmed
NormalizedName(startup) == Strip(Lower(startup.name))

\* the positions of a list whose normalized name occurs at no earlier position
FirstOccurrences(startups) ==
    {i \in DOMAIN startups :
        \A j \in 1..(i - 1) : NormalizedName(startups[j]) # NormalizedName(startups[i])}

\* C30: _remove_duplicates keeps the first occurrence of each company name
\* compared after lower-casing and trimming, in input order, so the returned
\* startups have pairwise distinct normalized names; and in the analysis of
\* source_startups_for_vc every FitMetrics.startup_id is the name of exactly
\* one unique startup and the results hold at most one entry per startup,
\* each carrying that startup's own quality score, conflicts and portfolio
\* fit.
C30_DuplicatesRemovedAndResultsResolve ==
    (last.op = "source_startups_for_vc" /\ ~last.raised)
    => LET found == last.found
           unique_startups == last.unique_startups
           first == FirstOccurrences(found)
           portfolio == portfolio_cache[SourcingAgent][last.vc_firm]
           named(startup_id) ==
               {i \in DOMAIN unique_startups : unique_startups[i].name = startup_id}
       IN  /\ Len(unique_startups) = Cardinality(first)
           /\ \A k \in DOMAIN unique_startups :
                  \E i \in first :
                      /\ Cardinality({j \in first : j < i}) = k - 1
                      /\ unique_startups[k] = found[i]
           /\ \A a \in DOMAIN unique_startups, b \in DOMAIN unique_startups :
                  a # b => NormalizedName(unique_startups[a])
                           # NormalizedName(unique_startups[b])
           /\ \A m \in DOMAIN last.fit_metrics :
                  Cardinality(named(last.fit_metrics[m].startup_id)) = 1
           /\ \A a \in DOMAIN last.results, b \in DOMAIN last.results :
                  a # b => last.results[a].company_name # last.results[b].company_name
           /\ \A a \in DOMAIN last.results :
                  LET result == last.results[a]
                  IN  /\ Cardinality(named(result.company_name)) = 1
                      /\ \A i \in named(result.company_name) :
                             LET startup == unique_startups[i]
                             IN  /\ result.industry = startup.industry
                                 /\ result.fit_metrics.quality_score
                                        = Q_calculate_quality_score(startup)
                                 /\ result.fit_metrics.portfolio_conflicts
                                        = Agent_detect_portfolio_conflicts(startup, portfolio)
                                 /\ result.fit_metrics.portfolio_fit_score
                                        = Agent_calculate_portfolio_fit(startup, portfolio)
                                              .portfolio_fit_score

\* a request whose searches found "SLACKR ", Coinhub and Slackr: the later
\* Slackr was dropped and both unique startups have a result
C30_Witness ==
    /\ last.op = "source_startups_for_vc"
    /\ ~last.raised
    /\ Len(last.found) = 3
    /\ last.found[1].name = "SLACKR "
    /\ last.found[3].name = "Slackr"
    /\ Len(last.unique_startups) = 2
    /\ last.unique_startups[1].name = "SLACKR "
    /\ Len(last.results) = 2

=============================================================================
